---- MODULE Spec2Model ----
(***************************************************************************)
(* A model of the InterOp binary metric reader (miseqinteropreader):       *)
(* the format registry, the struct-level record codec, the test-data       *)
(* generator, the streaming decoder and the pydantic record models.        *)
(*                                                                         *)
(* Representation of Python values:                                        *)
(*   - a Python int held in a record field or a row is a BigInt            *)
(*     [neg, w]: a sign and four 16-bit words, most significant first      *)
(*     (|v| < 2^64), because the checker's integers stop at 2^31 - 1;      *)
(*   - a Python float is a Float [cls, m, e]: the double m * 2^e with m    *)
(*     odd (or m = e = 0), or an infinity or a NaN;                        *)
(*   - bytes are sequences over 0..255;                                    *)
(*   - header values, lengths and positions are plain naturals.            *)
(***************************************************************************)
EXTENDS Integers, Sequences, FiniteSets, TLC

\* ------------------------------------------------------------ bounds

\* rows generated for one file
MaxRows == 2
\* row patterns the generator draws from (see generate_row)
NumSeeds == 3

\* ------------------------------------------------- sequence helpers

Repeat(c, n) == [i \in 1..n |-> c]

RECURSIVE Concat(_)
Concat(ss) == IF ss = <<>> THEN <<>> ELSE Head(ss) \o Concat(Tail(ss))

RECURSIVE SumSeq(_)
SumSeq(s) == IF s = <<>> THEN 0 ELSE Head(s) + SumSeq(Tail(s))

\* Python's slice  s[:n]
SliceTo(s, n) == IF n >= Len(s) THEN s ELSE SubSeq(s, 1, n)

\* Python's slice  s[n:]
SliceFrom(s, n) == IF n >= Len(s) THEN <<>> ELSE SubSeq(s, n + 1, Len(s))

Min(a, b) == IF a <= b THEN a ELSE b

Max(a, b) == IF a >= b THEN a ELSE b

Pow2(n) == 2 ^ n

\* number of bits of a natural n (0 for 0)
RECURSIVE BitLen(_)
BitLen(n) == IF n = 0 THEN 0 ELSE 1 + BitLen(n \div 2)

\* ------------------------------------------------------ Python ints

BigInt(neg, w3, w2, w1, w0) == [neg |-> neg, w |-> <<w3, w2, w1, w0>>]

\* the int n, for a natural n the checker can hold
PyInt(n) == BigInt(FALSE, 0, 0, n \div 65536, n % 65536)

\* the int -n, for a natural n > 0
PyNeg(n) == BigInt(TRUE, 0, 0, n \div 65536, n % 65536)

IsZero(b) == b.w = <<0, 0, 0, 0>>

\* v >= 0 on Python ints
NonNegative(b) == ~b.neg \/ IsZero(b)

\* ---------------------------------------------------- Python floats

Finite(m, e) == [cls |-> "finite", m |-> m, e |-> e]

Inf(sign) == [cls |-> "inf", m |-> sign, e |-> 0]

NaN == [cls |-> "nan", m |-> 0, e |-> 0]

\* m * 2^e with the trailing zero bits of m moved into e
RECURSIVE Canon(_, _)
Canon(m, e) ==
    IF m = 0 THEN Finite(0, 0)
    ELSE IF m % 2 = 0 THEN Canon(m \div 2, e + 1)
    ELSE Finite(m, e)

Abs(n) == IF n < 0 THEN 0 - n ELSE n

\* the position of the leading bit of a finite non-zero float: 2^Msb <= |x| < 2^(Msb+1)
Msb(x) == BitLen(Abs(x.m)) - 1 + x.e

\* ---------------------------------------------------- the struct codec

\* the format characters of a struct format string, without the byte-order mark
Items(fmt) == SelectSeq(fmt, LAMBDA c : c \notin {"<", "!"})

\* standard size of one format character
FieldSize(c) ==
    CASE c = "B" -> 1
      [] c = "H" -> 2
      [] c \in {"f", "L", "I"} -> 4
      [] c = "Q" -> 8
      [] OTHER -> 0

\* struct.calcsize
calcsize(fmt) == SumSeq([i \in 1..Len(Items(fmt)) |-> FieldSize(Items(fmt)[i])])

\* byte offset of the i-th item of a format
Offset(items, i) == SumSeq([j \in 1..(i - 1) |-> FieldSize(items[j])])

Ok(v) == [err |-> "", val |-> v]

Raise(e) == [err |-> e, val |-> <<>>]

\* a 16-bit word as two bytes, low byte first
WordBytesLE(w) == <<w % 256, w \div 256>>

\* an unsigned integer field of n words: little-endian, least significant word first
PackUInt(n, v) ==
    IF v.neg /\ ~IsZero(v) THEN Raise("struct.error")
    ELSE IF \E i \in 1..(4 - n) : v.w[i] # 0 THEN Raise("struct.error")
    ELSE Ok(Concat([i \in 1..n |-> WordBytesLE(v.w[5 - i])]))

\* one unsigned byte
PackByte(n) == IF n < 0 \/ n > 255 THEN Raise("struct.error") ELSE Ok(<<n>>)

\* a / 2^s rounded to the nearest integer, ties to even (0 < s <= 30)
RoundShift(a, s) ==
    LET q == a \div Pow2(s)
        r == a % Pow2(s)
        half == Pow2(s - 1)
    IN  IF r > half \/ (r = half /\ q % 2 = 1) THEN q + 1 ELSE q

\* the IEEE-754 binary32 field (biased exponent E, 23-bit fraction) as bytes
F32Bytes(sign, E, frac) ==
    << frac % 256,
       (frac \div 256) % 256,
       (frac \div 65536) + (E % 2) * 128,
       (E \div 2) + sign * 128 >>

\* struct's 'f': a double rounded to binary32 (nearest, ties to even)
PackFloat(x) ==
    IF x.cls = "nan" THEN Ok(F32Bytes(0, 255, 4194304))
    ELSE IF x.cls = "inf" THEN Ok(F32Bytes(IF x.m < 0 THEN 1 ELSE 0, 255, 0))
    ELSE IF x.m = 0 THEN Ok(F32Bytes(0, 0, 0))
    ELSE
      LET a    == Abs(x.m)
          sign == IF x.m < 0 THEN 1 ELSE 0
          top  == Msb(x)
          qe   == Max(top - 23, 0 - 149)
          s    == qe - x.e
          sig0 == IF s <= 0 THEN a * Pow2(0 - s)
                  ELSE IF s > 30 THEN 0
                  ELSE RoundShift(a, s)
          sig  == IF sig0 = 16777216 THEN 8388608 ELSE sig0
          qe1  == IF sig0 = 16777216 THEN qe + 1 ELSE qe
          E    == IF sig >= 8388608 THEN qe1 + 150 ELSE 0
          frac == IF sig >= 8388608 THEN sig - 8388608 ELSE sig
      IN  IF top > 127 \/ E >= 255 THEN Raise("OverflowError")
          ELSE Ok(F32Bytes(sign, E, frac))

PackField(c, v) ==
    CASE c = "H" -> PackUInt(1, v)
      [] c \in {"L", "I"} -> PackUInt(2, v)
      [] c = "Q" -> PackUInt(4, v)
      [] c = "f" -> PackFloat(v)
      [] c = "B" -> PackByte(v)
      [] OTHER -> Raise("struct.error")

\* struct.pack(fmt, *values)
pack(fmt, values) ==
    LET items == Items(fmt)
        parts == [i \in 1..Len(items) |-> PackField(items[i], values[i])]
    IN  IF Len(items) # Len(values) THEN Raise("struct.error")
        ELSE IF \E i \in 1..Len(parts) : parts[i].err # ""
             THEN Raise(parts[CHOOSE i \in 1..Len(parts) :
                              /\ parts[i].err # ""
                              /\ \A j \in 1..(i - 1) : parts[j].err = ""].err)
        ELSE Ok(Concat([i \in 1..Len(parts) |-> parts[i].val]))

\* little-endian bytes (2, 4 or 8 of them) as an unsigned integer
UnpackUInt(bs) ==
    LET n == Len(bs) \div 2
        word(k) == IF k > n THEN 0 ELSE bs[2 * k - 1] + 256 * bs[2 * k]
    IN  BigInt(FALSE, word(4), word(3), word(2), word(1))

\* binary32 bytes as the double they denote
UnpackFloat(bs) ==
    LET sign == bs[4] \div 128
        E    == (bs[4] % 128) * 2 + bs[3] \div 128
        frac == (bs[3] % 128) * 65536 + bs[2] * 256 + bs[1]
        sgn(n) == IF sign = 1 THEN 0 - n ELSE n
    IN  IF E = 255 THEN (IF frac = 0 THEN Inf(sgn(1)) ELSE NaN)
        ELSE IF E = 0 THEN Canon(sgn(frac), 0 - 149)
        ELSE Canon(sgn(8388608 + frac), E - 150)

UnpackField(c, bs) ==
    CASE c = "f" -> UnpackFloat(bs)
      [] c = "B" -> bs[1]
      [] OTHER -> UnpackUInt(bs)

\* struct.unpack(fmt, data)
unpack(fmt, data) ==
    LET items == Items(fmt)
    IN  IF Len(data) # calcsize(fmt) THEN Raise("struct.error")
        ELSE Ok([i \in 1..Len(items) |->
                   UnpackField(items[i],
                               SubSeq(data, Offset(items, i) + 1,
                                      Offset(items, i) + FieldSize(items[i])))])

\* ------------------------------------------------- the format registry

Formats == {"ERROR", "TILE", "QUALITY", "CORRECTEDINTENSITY", "EXTRACTION",
            "IMAGE", "PHASING"}

HeaderFormat == <<"!", "B", "B">>

\* the members of the BinaryFormat enum: (format, length, min_version)
BinaryFormatMembers(f) ==
    CASE f = "ERROR" ->
           [format |-> <<"<", "H", "H", "H", "f">> \o Repeat("L", 5),
            length |-> 30, min_version |-> 3]
      [] f = "TILE" ->
           [format |-> <<"<", "H", "H", "H", "f">>,
            length |-> 10, min_version |-> 2]
      [] f = "QUALITY" ->
           [format |-> <<"<", "H", "H", "H">> \o Repeat("L", 50),
            length |-> 206, min_version |-> 4]
      [] f = "CORRECTEDINTENSITY" ->
           [format |-> <<"<", "H", "H", "H">> \o Repeat("H", 9) \o Repeat("I", 5) \o <<"f">>,
            length |-> 48, min_version |-> 2]
      [] f = "EXTRACTION" ->
           [format |-> <<"<", "H", "H", "H", "f", "f", "f", "f", "H", "H", "H", "H", "Q">>,
            length |-> 38, min_version |-> 2]
      [] f = "IMAGE" ->
           [format |-> <<"<", "H", "H", "H", "H", "H", "H">>,
            length |-> 12, min_version |-> 1]
      [] f = "PHASING" ->
           [format |-> <<"<", "H", "H", "H", "f", "f">>,
            length |-> 14, min_version |-> 1]

\* a registry whose tile entry carries a wrong length
BinaryFormatWrongLength(f) ==
    [BinaryFormatMembers(f) EXCEPT !.length = IF f = "TILE" THEN 12 ELSE @]

\* BinaryFormat.__init__: the attributes of a member
BinaryFormat(f) == BinaryFormatMembers(f)

\* ---------------------------------------------------- the record models

\* number of bins a QualityRecord must carry (check_quality_record_length)
QualityBins == 50

Kinds == {"TileMetricRecord", "ErrorRecord", "QualityRecord", "CorrectedIntensityRecord",
          "ExtractionRecord", "ImageRecord", "PhasingRecord", "IndexRecord"}

Field(name, type) == [name |-> name, type |-> type]

BaseMetricRecordFields == <<Field("lane", "uint"), Field("tile", "uint")>>

BaseCycleMetricRecordFields == BaseMetricRecordFields \o <<Field("cycle", "uint")>>

\* model_fields of each record class, in declaration order (inherited fields first)
ModelFields(kind) ==
    CASE kind = "TileMetricRecord" ->
           BaseMetricRecordFields \o
           <<Field("metric_code", "uint"), Field("metric_value", "float")>>
      [] kind = "ErrorRecord" ->
           BaseCycleMetricRecordFields \o
           <<Field("error_rate", "float"), Field("num_0_errors", "uint"),
             Field("num_1_errors", "uint"), Field("num_2_errors", "uint"),
             Field("num_3_errors", "uint"), Field("num_4_errors", "uint")>>
      [] kind = "QualityRecord" ->
           BaseCycleMetricRecordFields \o <<Field("quality_bins", "bins")>>
      [] kind = "CorrectedIntensityRecord" ->
           BaseCycleMetricRecordFields \o
           <<Field("avg_cycle_intensity", "uint"),
             Field("avg_corrected_intensity_a", "uint"),
             Field("avg_corrected_intensity_c", "uint"),
             Field("avg_corrected_intensity_g", "uint"),
             Field("avg_corrected_intensity_t", "uint"),
             Field("avg_corrected_cluster_intensity_a", "uint"),
             Field("avg_corrected_cluster_intensity_c", "uint"),
             Field("avg_corrected_cluster_intensity_g", "uint"),
             Field("avg_corrected_cluster_intensity_t", "uint"),
             Field("num_base_calls_none", "uint"),
             Field("num_base_calls_a", "uint"), Field("num_base_calls_c", "uint"),
             Field("num_base_calls_g", "uint"), Field("num_base_calls_t", "uint"),
             Field("snr", "float")>>
      [] kind = "ExtractionRecord" ->
           BaseCycleMetricRecordFields \o
           <<Field("focus_a", "float"), Field("focus_c", "float"),
             Field("focus_g", "float"), Field("focus_t", "float"),
             Field("max_intensity_a", "uint"), Field("max_intensity_c", "uint"),
             Field("max_intensity_g", "uint"), Field("max_intensity_t", "uint"),
             Field("datestamp", "uint")>>
      [] kind = "ImageRecord" ->
           BaseCycleMetricRecordFields \o
           <<Field("channel_number", "uint"), Field("min_contrast", "uint"),
             Field("max_contrast", "uint")>>
      [] kind = "PhasingRecord" ->
           BaseCycleMetricRecordFields \o
           <<Field("phasing_weight", "float"), Field("prephasing_weight", "float")>>
      [] kind = "IndexRecord" -> BaseCycleMetricRecordFields

\* assert_unsigned: the AfterValidator of every uint field
assert_unsigned(v) == NonNegative(v)

\* a length check that only bounds the list from above
check_quality_record_length_at_most(v) == Len(v) <= QualityBins

\* check_quality_record_length: the AfterValidator of quality_bins
check_quality_record_length(v) == Len(v) = QualityBins

\* whether one field's value passes its validators
FieldValid(type, v) ==
    CASE type = "uint" -> assert_unsigned(v)
      [] type = "bins" -> check_quality_record_length(v)
      [] OTHER -> TRUE

\* the validating constructor of a record class: values in model_fields order
Construct(kind, values) ==
    IF \A i \in 1..Len(ModelFields(kind)) : FieldValid(ModelFields(kind)[i].type, values[i])
    THEN Ok([kind |-> kind, f |-> values])
    ELSE Raise("ValidationError")

\* ---------------------------------------------------- the typed readers

ErrorRecordOf(fields) ==
    Construct("ErrorRecord",
              <<fields[1], fields[2], fields[3], fields[4], fields[5], fields[6],
                fields[7], fields[8], fields[9]>>)

TileMetricRecordOf(fields) ==
    Construct("TileMetricRecord", <<fields[1], fields[2], fields[3], fields[4]>>)

QualityRecordOf(fields) ==
    Construct("QualityRecord", <<fields[1], fields[2], fields[3], SliceFrom(fields, 3)>>)

CorrectedIntensityRecordOf(fields) ==
    Construct("CorrectedIntensityRecord",
              <<fields[1], fields[2], fields[3], fields[4], fields[5], fields[6],
                fields[7], fields[8], fields[9], fields[10], fields[11], fields[12],
                fields[13], fields[14], fields[15], fields[16], fields[17], fields[18]>>)

ExtractionRecordOf(fields) ==
    Construct("ExtractionRecord",
              <<fields[1], fields[2], fields[3], fields[4], fields[5], fields[6],
                fields[7], fields[8], fields[9], fields[10], fields[11], fields[12]>>)

ImageRecordOf(fields) ==
    Construct("ImageRecord",
              <<fields[1], fields[2], fields[3], fields[4], fields[5], fields[6]>>)

PhasingRecordOf(fields) ==
    Construct("PhasingRecord", <<fields[1], fields[2], fields[3], fields[4], fields[5]>>)

\* the record a reader (or a test) builds from the fields of one row of format f
RecordOf(f, fields) ==
    CASE f = "ERROR" -> ErrorRecordOf(fields)
      [] f = "TILE" -> TileMetricRecordOf(fields)
      [] f = "QUALITY" -> QualityRecordOf(fields)
      [] f = "CORRECTEDINTENSITY" -> CorrectedIntensityRecordOf(fields)
      [] f = "EXTRACTION" -> ExtractionRecordOf(fields)
      [] f = "IMAGE" -> ImageRecordOf(fields)
      [] f = "PHASING" -> PhasingRecordOf(fields)

\* the slice of a chunk a reader hands to unpack:  data[: BinaryFormat.X.length]
UnpackSlice(f, data) == SliceTo(data, BinaryFormat(f).length)

\* the body of a typed reader's loop for one chunk: unpack, then construct
ReadOne(f, data) ==
    LET u == unpack(BinaryFormat(f).format, UnpackSlice(f, data))
    IN  IF u.err # "" THEN Raise(u.err) ELSE RecordOf(f, u.val)

read_errors(data) == ReadOne("ERROR", data)

read_tiles(data) == ReadOne("TILE", data)

read_quality(data) == ReadOne("QUALITY", data)

read_corrected_intensities(data) == ReadOne("CORRECTEDINTENSITY", data)

read_extractions(data) == ReadOne("EXTRACTION", data)

read_images(data) == ReadOne("IMAGE", data)

read_phasing(data) == ReadOne("PHASING", data)

Reader(f, data) ==
    CASE f = "ERROR" -> read_errors(data)
      [] f = "TILE" -> read_tiles(data)
      [] f = "QUALITY" -> read_quality(data)
      [] f = "CORRECTEDINTENSITY" -> read_corrected_intensities(data)
      [] f = "EXTRACTION" -> read_extractions(data)
      [] f = "IMAGE" -> read_images(data)
      [] f = "PHASING" -> read_phasing(data)

\* the min_version a typed reader passes to read_records
ReaderMinVersion(f) == BinaryFormat(f).min_version

\* ------------------------------------------------- the test-data generator

\* values _generate_numeric_sequence can draw for each format character
HSamples == <<PyInt(0), PyInt(65535), PyInt(258)>>

LSamples == <<PyInt(0), BigInt(FALSE, 0, 0, 65535, 65535), PyInt(65538), PyInt(30)>>

QSamples == <<BigInt(FALSE, 0, 0, 0, 0), BigInt(FALSE, 65535, 65535, 65535, 65535),
              BigInt(FALSE, 2268, 12345, 4, 10), BigInt(FALSE, 49153, 0, 0, 7)>>

\* doubles k * 2^-53 in [0, 1): 0, 1 - 2^-30, 0.5, two 30-bit and one 25-bit
\* significand that binary32 must round, and the least non-zero value
FSamples == <<Finite(0, 0), Finite(1073741823, 0 - 30), Finite(1, 0 - 1),
              Finite(536870945, 0 - 30), Finite(16777217, 0 - 25),
              Finite(536870943, 0 - 30), Finite(1, 0 - 53)>>

Sample(c, k) ==
    CASE c = "H" -> HSamples[(k % Len(HSamples)) + 1]
      [] c \in {"L", "I"} -> LSamples[(k % Len(LSamples)) + 1]
      [] c = "Q" -> QSamples[(k % Len(QSamples)) + 1]
      [] c = "f" -> FSamples[(k % Len(FSamples)) + 1]

\* encoded names of ASCII letters, of one to three bytes
NameSamples == << <<65>>, <<97, 98>>, <<120, 121, 122>> >>

\* a length prefix that counts one byte too many
NameLengthPlusOne(name) == PyInt(Len(name) + 1)

\* len(index_name), len(sample_name), len(project_name)
NameLength(name) == PyInt(Len(name))

\* IndexRecordGenerator.generate_row
IndexRecordGenerator_generate_row(seed) ==
    LET sample_name == NameSamples[(seed % Len(NameSamples)) + 1]
        index_name == NameSamples[((seed + 1) % Len(NameSamples)) + 1]
        project_name == NameSamples[((seed + 2) % Len(NameSamples)) + 1]
    IN  <<Sample("H", seed + 1), Sample("H", seed + 2), Sample("H", seed + 3),
          NameLength(index_name), index_name, Sample("H", seed + 4),
          NameLength(sample_name), sample_name,
          NameLength(project_name), project_name>>

\* _generate_numeric_sequence / generate_row: one valid row of format f
generate_row(f, seed) ==
    IF f = "INDEX" THEN IndexRecordGenerator_generate_row(seed)
    ELSE [i \in 1..Len(Items(BinaryFormat(f).format)) |->
            Sample(Items(BinaryFormat(f).format)[i], seed + i)]

\* header values with the record length put first
header_values_length_first(f) ==
    IF f = "INDEX" THEN <<1>>
    ELSE <<BinaryFormat(f).length, BinaryFormat(f).min_version>>

\* header_values of the generator of format f
header_values(f) ==
    IF f = "INDEX" THEN <<1>>
    ELSE <<BinaryFormat(f).min_version, BinaryFormat(f).length>>

\* a generator's header_format
header_format(f) == IF f = "INDEX" THEN <<"!", "B">> ELSE <<"!", "B", "B">>

\* a struct item  "<n>s": the first n bytes of bs, padded with zero bytes
PackString(n, bs) == [i \in 1..n |-> IF i <= Len(bs) THEN bs[i] ELSE 0]

\* IndexRecordGenerator.generate_binary for one row:
\* pack("<HHH" "H<n>s" "I" "H<n>s" "H<n>s", *row)
IndexRecordGenerator_generate_binary(row) ==
    PackUInt(1, row[1]).val \o PackUInt(1, row[2]).val \o PackUInt(1, row[3]).val
    \o PackUInt(1, row[4]).val \o PackString(row[4].w[4], row[5])
    \o PackUInt(2, row[6]).val
    \o PackUInt(1, row[7]).val \o PackString(row[7].w[4], row[8])
    \o PackUInt(1, row[9]).val \o PackString(row[9].w[4], row[10])

None == [none |-> TRUE, val |-> <<>>]

Some(v) == [none |-> FALSE, val |-> v]

\* gen_header(values=...), the format argument left at its default
gen_header(f, values) ==
    IF values.none THEN pack(header_format(f), header_values(f))
    ELSE pack(header_format(f), values.val)

\* generate_binary: each row packed with the format's layout
generate_binary(f, row_data) ==
    [i \in 1..Len(row_data) |->
       IF f = "INDEX" THEN IndexRecordGenerator_generate_binary(row_data[i])
       ELSE pack(BinaryFormat(f).format, row_data[i]).val]

\* write_file: the header (the default one for None), then the data
write_file(f, header, isList, binary_data) ==
    (IF header.none THEN gen_header(f, None).val ELSE header.val)
    \o (IF isList THEN Concat(binary_data) ELSE binary_data)

\* ------------------------------------------- 64-bit arithmetic on BigInts

\* a 16-bit word as bits, most significant first
WordBits(w) == [i \in 1..16 |-> (w \div Pow2(16 - i)) % 2]

\* the magnitude of a BigInt as 64 bits, most significant first
Bits(b) == WordBits(b.w[1]) \o WordBits(b.w[2]) \o WordBits(b.w[3]) \o WordBits(b.w[4])

\* bits without their leading zeros
Strip(bits) ==
    IF \A i \in 1..Len(bits) : bits[i] = 0 THEN <<>>
    ELSE SubSeq(bits, CHOOSE i \in 1..Len(bits) :
                        bits[i] = 1 /\ \A j \in 1..(i - 1) : bits[j] = 0,
                Len(bits))

\* the value of at most 16 bits, most significant first
BitsValue(bits) == SumSeq([i \in 1..Len(bits) |-> bits[i] * Pow2(Len(bits) - i)])

\* the non-negative BigInt with the given bits (at most 64, most significant first)
FromBits(bits) ==
    LET b == Repeat(0, 64 - Len(bits)) \o bits
    IN  BigInt(FALSE, BitsValue(SubSeq(b, 1, 16)), BitsValue(SubSeq(b, 17, 32)),
               BitsValue(SubSeq(b, 33, 48)), BitsValue(SubSeq(b, 49, 64)))

\* bits + 1
IncBits(bits) ==
    IF \A i \in 1..Len(bits) : bits[i] = 1 THEN <<1>> \o Repeat(0, Len(bits))
    ELSE LET z == CHOOSE i \in 1..Len(bits) :
                    bits[i] = 0 /\ \A j \in (i + 1)..Len(bits) : bits[j] = 1
         IN  SubSeq(bits, 1, z - 1) \o <<1>> \o Repeat(0, Len(bits) - z)

\* long division of a non-negative BigInt by 10, word by word:
\* [q |-> quotient bits (64), r |-> remainder]
DivMod10(b) ==
    LET c1 == b.w[1]
        c2 == (c1 % 10) * 65536 + b.w[2]
        c3 == (c2 % 10) * 65536 + b.w[3]
        c4 == (c3 % 10) * 65536 + b.w[4]
    IN  [q |-> Bits(BigInt(FALSE, c1 \div 10, c2 \div 10, c3 \div 10, c4 \div 10)),
         r |-> c4 % 10]

\* a <= b on non-negative BigInts
RECURSIVE SeqLeq(_, _)
SeqLeq(a, b) ==
    IF a = <<>> THEN TRUE
    ELSE IF Head(a) # Head(b) THEN Head(a) < Head(b)
    ELSE SeqLeq(Tail(a), Tail(b))

BigLeq(a, b) == SeqLeq(a.w, b.w)

\* ------------------------------------------- ExtractionRecord.datetime

\* datestamp & bitmask, bitmask = 2^62 - 1
MaskLow62(b) == BigInt(FALSE, b.w[1] % 16384, b.w[2], b.w[3], b.w[4])

\* datetime.max - datetime(1, 1, 1) in microseconds: 315537897599999999
MaxMicroseconds == BigInt(FALSE, 1121, 1035, 52127, 8191)

\* timedelta(microseconds=n / 10): the quotient n / 10 is the correctly rounded
\* double (53 significant bits), which timedelta rounds half-even to whole
\* microseconds.  q, r: the integer quotient (stripped bits) and remainder of n by 10.
RoundedMicroseconds(q, r) ==
    LET n == Len(q)
        k == n - 53
        odd(bits) == bits # <<>> /\ bits[Len(bits)] = 1
    IN  IF k >= 1
        THEN \* the double is a multiple of 2^k
             LET Q    == SubSeq(q, 1, 53)
                 low  == SubSeq(q, 54, n)
                 rest == \E i \in 2..Len(low) : low[i] = 1
                 up   == low[1] = 1 /\ (rest \/ r > 0 \/ odd(Q))
             IN  (IF up THEN IncBits(Q) ELSE Q) \o Repeat(0, k)
        ELSE IF k = 0
        THEN IF r > 5 \/ (r = 5 /\ odd(q)) THEN IncBits(q) ELSE q
        ELSE \* s = -k fractional bits: F = r / 10 rounded to a multiple of 2^-s
             LET s  == 0 - k
                 F  == IF s >= 4 THEN 0 ELSE (r * Pow2(s) + 5) \div 10
                 up == IF s >= 4 THEN r > 5 \/ (r = 5 /\ odd(q))
                       ELSE F > Pow2(s - 1) \/ (F = Pow2(s - 1) /\ odd(q))
             IN  IF up THEN IncBits(q) ELSE q

\* the datetime property: microseconds since 0001-01-01T00:00:00, or OverflowError
\* when datetime(1, 1, 1) + timedelta passes datetime.max
datetime(datestamp) ==
    LET ns100intervals == MaskLow62(datestamp)
        d  == DivMod10(ns100intervals)
        us == RoundedMicroseconds(Strip(d.q), d.r)
    IN  IF Len(us) > 64 \/ ~BigLeq(FromBits(us), MaxMicroseconds)
        THEN Raise("OverflowError")
        ELSE Ok(FromBits(us))


\* ------------------------------------------------- equality and dumping

\* math.isclose(a, b, rel_tol=1e-7): |a - b| <= 1e-7 * max(|a|, |b|), with the
\* products taken exactly (significands below 2^30)
isclose(a, b) ==
    IF a.cls = "nan" \/ b.cls = "nan" THEN FALSE
    ELSE IF a = b THEN TRUE
    ELSE IF a.cls = "inf" \/ b.cls = "inf" THEN FALSE
    ELSE IF a.m = 0 \/ b.m = 0 THEN FALSE
    ELSE IF (a.m < 0) # (b.m < 0) THEN FALSE
    ELSE IF Abs(Msb(a) - Msb(b)) >= 2 THEN FALSE
    ELSE LET e0 == Min(a.e, b.e)
             A  == Abs(a.m) * Pow2(a.e - e0)
             B  == Abs(b.m) * Pow2(b.e - e0)
         IN  Abs(A - B) <= Max(A, B) \div 10000000

\* a Python dict: a sequence of [k, v] items with distinct keys, in insertion order
Item(k, v) == [k |-> k, v |-> v]

HasKey(d, k) == \E i \in 1..Len(d) : d[i].k = k

\* dict(items): keys in order of first insertion, each with the value of its
\* last item
DictOf(items) ==
    LET idx    == [i \in 1..Len(items) |-> i]
        firsts == SelectSeq(idx, LAMBDA i : \A j \in 1..(i - 1) : items[j].k # items[i].k)
        last(k) == CHOOSE i \in 1..Len(items) :
                     items[i].k = k /\ \A j \in (i + 1)..Len(items) : items[j].k # k
    IN  [n \in 1..Len(firsts) |->
           Item(items[firsts[n]].k, items[last(items[firsts[n]].k)].v)]

\* d[k], for a key d has
DictGet(d, k) == d[CHOOSE i \in 1..Len(d) : d[i].k = k].v

\* format(k, "02"): at least two digits, zero padded
Format02(k) == IF k < 10 THEN "0" \o ToString(k) ELSE ToString(k)

\* a serializer that enumerates the bins after the first
custom_serializer_skipping_first(rec) ==
    DictOf(<<Item("lane", rec.f[1]), Item("tile", rec.f[2]), Item("cycle", rec.f[3])>>
           \o [j \in 1..(Len(rec.f[4]) - 1) |-> Item("q" \o Format02(j), rec.f[4][j + 1])])

\* QualityRecord.custom_serializer (miseqinteropreader.models): the flat dict
custom_serializer(rec) ==
    DictOf(<<Item("lane", rec.f[1]), Item("tile", rec.f[2]), Item("cycle", rec.f[3])>>
           \o [j \in 1..Len(rec.f[4]) |-> Item("q" \o Format02(j), rec.f[4][j])])

\* QualityRecord.custom_serializer (interop_reader.models): keys count from 00
custom_serializer_interop_reader(rec) ==
    DictOf(<<Item("lane", rec.f[1]), Item("tile", rec.f[2]), Item("cycle", rec.f[3])>>
           \o [j \in 1..Len(rec.f[4]) |-> Item(Format02(j - 1), rec.f[4][j])])

\* model_dump: the custom serializer of a QualityRecord; otherwise every field
\* and then every computed field (ExtractionRecord.datetime, which may raise)
model_dump(rec) ==
    LET fields == ModelFields(rec.kind)
        plain  == [i \in 1..Len(fields) |-> Item(fields[i].name, rec.f[i])]
    IN  IF rec.kind = "QualityRecord" THEN Ok(custom_serializer(rec))
        ELSE IF rec.kind = "ExtractionRecord"
        THEN LET dt == datetime(rec.f[12])
             IN  IF dt.err # "" THEN Raise(dt.err)
                 ELSE Ok(DictOf(plain \o <<Item("datetime", dt.val)>>))
        ELSE Ok(DictOf(plain))

\* the classes a record of the given kind is an instance of
Mro(kind) ==
    IF kind = "TileMetricRecord" THEN {kind, "BaseMetricRecord"}
    ELSE {kind, "BaseCycleMetricRecord", "BaseMetricRecord"}

\* isinstance(other, type(self))
isinstance(other, self) == self.kind \in Mro(other.kind)

\* BaseMetricRecord.__eq__
eq(self, other) ==
    IF ~isinstance(other, self) THEN Ok(FALSE)
    ELSE
      LET other_dict == model_dump(other)
          self_dict  == model_dump(self)
          fields     == ModelFields(self.kind)
      IN  IF other_dict.err # "" THEN Raise(other_dict.err)
          ELSE IF self_dict.err # "" THEN Raise(self_dict.err)
          ELSE IF \E i \in 1..Len(fields) :
                    ~HasKey(self_dict.val, fields[i].name)
                    \/ ~HasKey(other_dict.val, fields[i].name)
               THEN Raise("KeyError")
          ELSE Ok(\A i \in 1..Len(fields) :
                    IF fields[i].type = "float"
                    THEN isclose(DictGet(self_dict.val, fields[i].name),
                                 DictGet(other_dict.val, fields[i].name))
                    ELSE DictGet(self_dict.val, fields[i].name)
                         = DictGet(other_dict.val, fields[i].name))

\* ------------------------------------------------------------ the state

VARIABLES
    fmt,    \* the metric format of the generator and of the reader in use
    rows,   \* the rows generated so far
    wargs,  \* how the file was written: [header, cut]
    file,   \* the bytes of the file
    pc,     \* "rows", "file", then the decoder: "loop", "done", "raised"
    pos,    \* the stream position of the open file
    hdr,    \* <<version, record_length>> as read from the header
    out,    \* the records the reader has yielded so far
    err,    \* the exception that ended the decode, "" if none
    rec,    \* the record under study, NoRecord before it is constructed
    res,    \* the last operation on records, with its arguments and outcome
    disk,   \* the run directory on disk: what exists, and the metric files' bytes
    reader, \* the InterOpReader, None before it is constructed
    handles,\* the number of open file handles
    ret,    \* the last call on the reader or a metric, with its outcome
    recs,   \* the records handed to a summary aggregator
    lens,   \* the read lengths handed to it, None if not given
    summ    \* the summary it produced

codecVars == <<fmt, rows, wargs, file, pc, pos, hdr, out, err>>

modelVars == <<rec, res>>

fileVars == <<disk, reader, handles, ret>>

summaryVars == <<recs, lens, summ>>

vars == <<codecVars, modelVars, fileVars, summaryVars>>

NoRecord == [kind |-> "", f |-> <<>>]

NoResult == [op |-> ""]

\* a run directory path at which nothing exists
NoDisk ==
    [run |-> "missing", samplesheet |-> FALSE, interop |-> "missing",
     markers |-> {}, files |-> <<>>]

\* header arguments a caller of write_file passes: None, or gen_header(values=(v, rl))
HeaderVersions(f) ==
    {v \in {BinaryFormat(f).min_version - 1, BinaryFormat(f).min_version,
            BinaryFormat(f).min_version + 1} : v >= 0}

HeaderLengths(f) ==
    {n \in {0, BinaryFormat(f).length - 1, BinaryFormat(f).length,
            BinaryFormat(f).length + 1, 2 * BinaryFormat(f).length} : n <= 255}

HeaderArgs(f) ==
    {None}
    \cup {Some(gen_header(f, Some(<<v, BinaryFormat(f).length>>)).val) :
            v \in HeaderVersions(f)}
    \cup {Some(gen_header(f, Some(<<BinaryFormat(f).min_version, n>>)).val) :
            n \in HeaderLengths(f)}

\* numbers of bytes missing at the end of an incomplete file
Cuts(f) == {0, 1, BinaryFormat(f).length - 1}

InitCodec ==
    /\ fmt \in Formats
    /\ rows = <<>>
    /\ wargs = [header |-> None, cut |-> 0]
    /\ file = <<>>
    /\ pc = "rows"
    /\ pos = 0
    /\ hdr = <<>>
    /\ out = <<>>
    /\ err = ""
    /\ rec = NoRecord
    /\ res = NoResult
    /\ disk = NoDisk
    /\ reader = None
    /\ handles = 0
    /\ ret = NoResult
    /\ recs = <<>>
    /\ lens = None
    /\ summ = NoResult

\* generate_row: one more row for the file
GenerateRow ==
    /\ pc = "rows"
    /\ Len(rows) < MaxRows
    /\ \E seed \in 1..NumSeeds : rows' = Append(rows, generate_row(fmt, seed))
    /\ UNCHANGED <<fmt, wargs, file, pc, pos, hdr, out, err>>
    /\ UNCHANGED <<modelVars, fileVars, summaryVars>>

\* write_file with the list generate_binary produced
WriteFile ==
    /\ pc = "rows"
    /\ \E h \in HeaderArgs(fmt) :
         /\ wargs' = [header |-> h, cut |-> 0]
         /\ file' = write_file(fmt, h, TRUE, generate_binary(fmt, rows))
    /\ pc' = "file"
    /\ UNCHANGED <<fmt, rows, pos, hdr, out, err>>
    /\ UNCHANGED <<modelVars, fileVars, summaryVars>>

\* write_file with a byte string that stops short of the last record's end
WriteIncompleteFile ==
    /\ pc = "rows"
    /\ \E h \in HeaderArgs(fmt), c \in Cuts(fmt) \ {0} :
         LET body == Concat(generate_binary(fmt, rows))
         IN  /\ c <= Len(body)
             /\ wargs' = [header |-> h, cut |-> c]
             /\ file' = write_file(fmt, h, FALSE, SubSeq(body, 1, Len(body) - c))
    /\ pc' = "file"
    /\ UNCHANGED <<fmt, rows, pos, hdr, out, err>>
    /\ UNCHANGED <<modelVars, fileVars, summaryVars>>

\* variants of the decoder's tests, each with one plausible slip
VersionTooOldInclusive(version, min_version) == version <= min_version

ReadSizeOfLayout(header, f) == BinaryFormat(f).length

PartialRecordOffByOne(read_length, record_length) == read_length + 1 < record_length

\* read_records' version check:  version < min_version
VersionTooOld(version, min_version) == version < min_version

\* the number of bytes read_records asks for per record: the header's record_length
ReadSize(header, f) == header[2]

EndOfStreamOnShortRead(read_length) == read_length <= 1

\* read_records' end-of-stream test:  read_length == 0
EndOfStream(read_length) == read_length = 0

\* read_records' partial-record test:  read_length < record_length
PartialRecord(read_length, record_length) == read_length < record_length

\* read_records up to its loop: the header is read, unpacked and checked
ReadHeader ==
    /\ pc = "file"
    /\ fmt \in Formats
    /\ LET header == SubSeq(file, 1, Min(2, Len(file)))
           u == unpack(HeaderFormat, header)
       IN  /\ pos' = Len(header)
           /\ IF u.err # ""
              THEN /\ pc' = "raised" /\ err' = u.err /\ hdr' = hdr
              ELSE /\ hdr' = u.val
                   /\ IF VersionTooOld(u.val[1], ReaderMinVersion(fmt))
                      THEN pc' = "raised" /\ err' = "IOError: version"
                      ELSE pc' = "loop" /\ err' = err
    /\ UNCHANGED <<fmt, rows, wargs, file, out>>
    /\ UNCHANGED <<modelVars, fileVars, summaryVars>>

\* one turn of read_records' loop and of the typed reader's loop around it
ReadRecord ==
    /\ pc = "loop"
    /\ fmt \in Formats
    /\ LET record_length == ReadSize(hdr, fmt)
           data == SubSeq(file, pos + 1, Min(pos + record_length, Len(file)))
           read_length == Len(data)
           r == Reader(fmt, data)
       IN  /\ pos' = pos + read_length
           /\ IF EndOfStream(read_length)
              THEN pc' = "done" /\ err' = err /\ out' = out
              ELSE IF PartialRecord(read_length, record_length)
              THEN pc' = "raised" /\ err' = "IOError: partial" /\ out' = out
              ELSE IF r.err # ""
              THEN pc' = "raised" /\ err' = r.err /\ out' = out
              ELSE pc' = pc /\ err' = err /\ out' = Append(out, r.val)
    /\ UNCHANGED <<fmt, rows, wargs, file, hdr>>
    /\ UNCHANGED <<modelVars, fileVars, summaryVars>>

NextCodec == GenerateRow \/ WriteFile \/ WriteIncompleteFile \/ ReadHeader \/ ReadRecord

Spec == InitCodec /\ [][NextCodec]_vars

\* ------------------------------------------------- records as values

\* three floats one part in 10^7 apart from the next
CloseFloats ==
    <<Finite(10000001, 0 - 24), Finite(5000001, 0 - 23), Finite(10000003, 0 - 24)>>

\* datestamps: zero, a few intervals, a date in 2024, the same date under two
\* set top bits, and the largest 62-bit and 64-bit values
DatestampSamples ==
    <<PyInt(0), PyInt(7), BigInt(FALSE, 2268, 12345, 4, 10),
      BigInt(FALSE, 51420, 12345, 4, 10), BigInt(FALSE, 16383, 65535, 65535, 65535),
      BigInt(FALSE, 65535, 65535, 65535, 65535)>>

\* keyword arguments for a record class, in model_fields order
ModelRow(kind, seed) ==
    [i \in 1..Len(ModelFields(kind)) |->
       CASE ModelFields(kind)[i].type = "float" -> Sample("f", seed + i)
         [] ModelFields(kind)[i].type = "bins" ->
              [j \in 1..QualityBins |-> Sample("L", seed + j)]
         [] ModelFields(kind)[i].name = "datestamp" -> Sample("Q", seed + i)
         [] OTHER -> Sample("H", seed + i)]

\* ways a caller's arguments depart from a generated row
Mods ==
    {[op |-> "asis", arg |-> 0]}
    \cup {[op |-> "negative", arg |-> i] : i \in 1..18}
    \cup {[op |-> "floats", arg |-> k] : k \in 1..Len(CloseFloats)}
    \cup {[op |-> "bins", arg |-> n] : n \in {0, QualityBins - 1, QualityBins + 1}}
    \cup {[op |-> "negative_bin", arg |-> j] : j \in {1, QualityBins}}
    \cup {[op |-> "datestamp", arg |-> k] : k \in 1..Len(DatestampSamples)}

Applicable(kind, mod) ==
    CASE mod.op = "negative" ->
           /\ mod.arg <= Len(ModelFields(kind))
           /\ ModelFields(kind)[mod.arg].type = "uint"
      [] mod.op = "floats" ->
           \E i \in 1..Len(ModelFields(kind)) : ModelFields(kind)[i].type = "float"
      [] mod.op \in {"bins", "negative_bin"} -> kind = "QualityRecord"
      [] mod.op = "datestamp" -> kind = "ExtractionRecord"
      [] OTHER -> TRUE

ModelInput(kind, seed, mod) ==
    [i \in 1..Len(ModelFields(kind)) |->
       LET v == ModelRow(kind, seed)[i]
           t == ModelFields(kind)[i].type
       IN  CASE mod.op = "negative" /\ i = mod.arg -> PyNeg(1)
             [] mod.op = "floats" /\ t = "float" -> CloseFloats[mod.arg]
             [] mod.op = "bins" /\ t = "bins" ->
                  [j \in 1..mod.arg |-> Sample("L", seed + j)]
             [] mod.op = "negative_bin" /\ t = "bins" ->
                  [v EXCEPT ![mod.arg] = PyNeg(1)]
             [] mod.op = "datestamp" /\ ModelFields(kind)[i].name = "datestamp" ->
                  DatestampSamples[mod.arg]
             [] OTHER -> v]

InitModels ==
    /\ fmt = "TILE"
    /\ rows = <<>>
    /\ wargs = [header |-> None, cut |-> 0]
    /\ file = <<>>
    /\ pc = "rows"
    /\ pos = 0
    /\ hdr = <<>>
    /\ out = <<>>
    /\ err = ""
    /\ rec = NoRecord
    /\ res = NoResult
    /\ disk = NoDisk
    /\ reader = None
    /\ handles = 0
    /\ ret = NoResult
    /\ recs = <<>>
    /\ lens = None
    /\ summ = NoResult

\* a record class is called with keyword arguments: the record, or ValidationError
ConstructRecord ==
    /\ rec = NoRecord
    /\ \E kind \in Kinds, seed \in 1..NumSeeds, mod \in Mods :
         /\ Applicable(kind, mod)
         /\ LET values == ModelInput(kind, seed, mod)
                r == Construct(kind, values)
            IN  /\ rec' = IF r.err = "" THEN r.val ELSE rec
                /\ res' = [op |-> "construct", kind |-> kind, values |-> values,
                           err |-> r.err]
    /\ UNCHANGED <<codecVars, fileVars, summaryVars>>

\* records are frozen and the operations on them are pure, so a behaviour
\* follows one record through its construction and one operation on it
Constructed == rec # NoRecord /\ res.op = "construct"

\* rec == other, for any other record
Compare ==
    /\ Constructed
    /\ \E kind \in Kinds, seed \in 1..NumSeeds, mod \in Mods :
         /\ Applicable(kind, mod)
         /\ LET other == Construct(kind, ModelInput(kind, seed, mod))
                r == eq(rec, other.val)
            IN  /\ other.err = ""
                /\ res' = [op |-> "eq", other |-> other.val, err |-> r.err, val |-> r.val]
    /\ UNCHANGED rec
    /\ UNCHANGED <<codecVars, fileVars, summaryVars>>

\* rec.model_dump()
ModelDump ==
    /\ Constructed
    /\ res' = [op |-> "model_dump", err |-> model_dump(rec).err,
               val |-> model_dump(rec).val]
    /\ UNCHANGED rec
    /\ UNCHANGED <<codecVars, fileVars, summaryVars>>

\* model_dump() of the interop_reader package's QualityRecord with rec's fields
ModelDumpInteropReader ==
    /\ Constructed
    /\ rec.kind = "QualityRecord"
    /\ res' = [op |-> "model_dump_interop_reader", err |-> "",
               val |-> custom_serializer_interop_reader(rec)]
    /\ UNCHANGED rec
    /\ UNCHANGED <<codecVars, fileVars, summaryVars>>

\* rec.datetime of an ExtractionRecord
DateTime ==
    /\ Constructed
    /\ rec.kind = "ExtractionRecord"
    /\ res' = [op |-> "datetime", err |-> datetime(rec.f[12]).err,
               val |-> datetime(rec.f[12]).val]
    /\ UNCHANGED rec
    /\ UNCHANGED <<codecVars, fileVars, summaryVars>>

NextModels ==
    ConstructRecord \/ Compare \/ ModelDump \/ ModelDumpInteropReader \/ DateTime

SpecModels == InitModels /\ [][NextModels]_vars

\* ------------------------------------------------------ the index format

\* the least version the index reader takes
IndexMinVersion == 1

\* a read that starts over at the first byte
TakeFromStart(data, p, n) == SubSeq(data, 1, Min(n, Len(data)))

\* data_file.read(n) at offset p
Take(data, p, n) == SubSeq(data, p + 1, Min(p + n, Len(data)))

\* two bytes as the length they prefix
PrefixValue(bs) == bs[1] + 256 * bs[2]

\* one index record read at offset p: three uint16 fields, a uint16 length
\* and that many bytes, one uint32 field, and two more (length, bytes) pairs.
\* No bytes at all where the record would start end the stream; a short read
\* at any later step is a partial record
read_index_record(data, p) ==
    LET fixed == Take(data, p, 6)
        l1 == Take(data, p + 6, 2)
        s1 == Take(data, p + 8, PrefixValue(l1))
        p2 == p + 8 + PrefixValue(l1)
        count == Take(data, p2, 4)
        l2 == Take(data, p2 + 4, 2)
        s2 == Take(data, p2 + 6, PrefixValue(l2))
        p3 == p2 + 6 + PrefixValue(l2)
        l3 == Take(data, p3, 2)
        s3 == Take(data, p3 + 2, PrefixValue(l3))
    IN  IF Len(fixed) = 0 THEN [err |-> "", end |-> TRUE, val |-> <<>>, pos |-> p]
        ELSE IF \/ Len(fixed) < 6
                \/ Len(l1) < 2 \/ Len(s1) < PrefixValue(l1)
                \/ Len(count) < 4
                \/ Len(l2) < 2 \/ Len(s2) < PrefixValue(l2)
                \/ Len(l3) < 2 \/ Len(s3) < PrefixValue(l3)
        THEN [err |-> "IOError: partial", end |-> FALSE, val |-> <<>>, pos |-> Len(data)]
        ELSE [err |-> "", end |-> FALSE,
              val |-> <<UnpackUInt(SubSeq(fixed, 1, 2)), UnpackUInt(SubSeq(fixed, 3, 4)),
                        UnpackUInt(SubSeq(fixed, 5, 6)),
                        UnpackUInt(l1), s1, UnpackUInt(count),
                        UnpackUInt(l2), s2, UnpackUInt(l3), s3>>,
              pos |-> p3 + 2 + PrefixValue(l3)]

InitIndex ==
    /\ fmt \in Formats \cup {"INDEX"}
    /\ rows = <<>>
    /\ wargs = [header |-> None, cut |-> 0]
    /\ file = <<>>
    /\ pc = "rows"
    /\ pos = 0
    /\ hdr = <<>>
    /\ out = <<>>
    /\ err = ""
    /\ rec = NoRecord
    /\ res = NoResult
    /\ disk = NoDisk
    /\ reader = None
    /\ handles = 0
    /\ ret = NoResult
    /\ recs = <<>>
    /\ lens = None
    /\ summ = NoResult

\* write_file(file, None, generate_binary(rows)), for any generator
WriteDefaultFile ==
    /\ pc = "rows"
    /\ wargs' = [header |-> None, cut |-> 0]
    /\ file' = write_file(fmt, None, TRUE, generate_binary(fmt, rows))
    /\ pc' = "file"
    /\ UNCHANGED <<fmt, rows, pos, hdr, out, err>>
    /\ UNCHANGED <<modelVars, fileVars, summaryVars>>

\* write_file with an index file's bytes that stop inside the last record
WriteIncompleteIndexFile ==
    /\ pc = "rows"
    /\ fmt = "INDEX"
    /\ rows # <<>>
    /\ \E c \in 1..(Len(IndexRecordGenerator_generate_binary(rows[Len(rows)])) - 1) :
         LET body == Concat(generate_binary(fmt, rows))
         IN  /\ wargs' = [header |-> None, cut |-> c]
             /\ file' = write_file(fmt, None, FALSE, SubSeq(body, 1, Len(body) - c))
    /\ pc' = "file"
    /\ UNCHANGED <<fmt, rows, pos, hdr, out, err>>
    /\ UNCHANGED <<modelVars, fileVars, summaryVars>>

\* read_index up to its loop: the version byte is read and checked
ReadIndexHeader ==
    /\ pc = "file"
    /\ fmt = "INDEX"
    /\ LET header == Take(file, 0, 1)
       IN  /\ pos' = Len(header)
           /\ IF Len(header) < 1
              THEN pc' = "raised" /\ err' = "struct.error" /\ hdr' = hdr
              ELSE /\ hdr' = header
                   /\ IF VersionTooOld(header[1], IndexMinVersion)
                      THEN pc' = "raised" /\ err' = "IOError: version"
                      ELSE pc' = "loop" /\ err' = err
    /\ UNCHANGED <<fmt, rows, wargs, file, out>>
    /\ UNCHANGED <<modelVars, fileVars, summaryVars>>

\* one turn of read_index's loop
ReadIndexRecord ==
    /\ pc = "loop"
    /\ fmt = "INDEX"
    /\ LET r == read_index_record(file, pos)
       IN  /\ pos' = r.pos
           /\ IF r.end THEN pc' = "done" /\ err' = err /\ out' = out
              ELSE IF r.err # "" THEN pc' = "raised" /\ err' = r.err /\ out' = out
              ELSE pc' = pc /\ err' = err /\ out' = Append(out, r.val)
    /\ UNCHANGED <<fmt, rows, wargs, file, hdr>>
    /\ UNCHANGED <<modelVars, fileVars, summaryVars>>

NextIndex ==
    GenerateRow \/ WriteDefaultFile \/ WriteIncompleteIndexFile
    \/ ReadHeader \/ ReadRecord \/ ReadIndexHeader \/ ReadIndexRecord

SpecIndex == InitIndex /\ [][NextIndex]_vars

\* --------------------------------- the run directory and its metric files

\* the members of interop_reader's MetricFile enum
MetricNames ==
    {"CORRECTED_INTENSITY_METRICS", "ERROR_METRICS", "EXTENDED_TILE_METRICS",
     "EXTRACTION_METRICS", "IMAGE_METRICS", "PHASING_METRICS", "QUALITY_METRICS",
     "TILE_METRICS", "COLLAPSED_Q_METRICS", "SUMMARY_RUN"}

\* a Metric: its candidate file names in order, its record model, and the
\* format its read_method decodes ("" where read_method is left None)
Metric(files, model, read_method) ==
    [files |-> files, model |-> model, read_method |-> read_method]

MetricFile(m) ==
    CASE m = "CORRECTED_INTENSITY_METRICS" ->
           Metric(<<"CorrectedIntMetrics.bin", "CorrectedIntMetricsOut.bin">>,
                  "CorrectedIntensityRecord", "")
      [] m = "ERROR_METRICS" ->
           Metric(<<"ErrorMetrics.bin", "ErrorMetricsOut.bin">>,
                  "ErrorRecord", "ERROR")
      [] m = "EXTENDED_TILE_METRICS" ->
           Metric(<<"ExtendedTileMetrics.bin", "ExtendedTileMetricsOut.bin">>,
                  "TileMetricRecord", "TILE")
      [] m = "EXTRACTION_METRICS" ->
           Metric(<<"ExtractionMetrics.bin", "ExtractionMetricsOut.bin">>,
                  "ExtractionRecord", "")
      [] m = "IMAGE_METRICS" ->
           Metric(<<"ImageMetrics.bin", "ImageMetricsOut.bin">>,
                  "ImageRecord", "")
      [] m = "PHASING_METRICS" ->
           Metric(<<"EmpiricalPhasingMetrics.bin", "EmpiricalPhasingMetricsOut.bin">>,
                  "PhasingRecord", "")
      [] m = "QUALITY_METRICS" ->
           Metric(<<"QMetrics.bin", "QMetricsOut.bin">>,
                  "QualityRecord", "QUALITY")
      [] m = "TILE_METRICS" ->
           Metric(<<"TileMetrics.bin", "TileMetricsOut.bin">>,
                  "TileMetricRecord", "TILE")
      [] m = "COLLAPSED_Q_METRICS" ->
           Metric(<<"QMetrics2030.bin", "QMetrics2030Out.bin">>,
                  "QualityRecord", "")
      [] m = "SUMMARY_RUN" ->
           Metric(<<"SummaryRun.bin", "SummaryRunOut.bin">>,
                  "BaseMetric", "")

\* what is on disk at the run directory's path: the kind of the path itself and
\* of InterOp under it ("missing", "file" or "dir"), whether SampleSheet.csv
\* exists, the marker files present, and the files in InterOp with their bytes
Disk(run, samplesheet, interop, markers, files) ==
    [run |-> run, samplesheet |-> samplesheet, interop |-> interop,
     markers |-> markers, files |-> files]

\* a raised exception with its message
Fail(e, msg) == [err |-> e, val |-> <<>>, msg |-> msg]

\* "/".join(ss)
RECURSIVE Join(_)
Join(ss) ==
    IF Len(ss) = 0 THEN ""
    ELSE IF Len(ss) = 1 THEN ss[1]
    ELSE ss[1] \o "/" \o Join(Tail(ss))

\* a resolver that walks the candidates from the last to the first
get_file_last_first(m, d) ==
    LET files == MetricFile(m).files
    IN  IF \E i \in 1..Len(files) : HasKey(d.files, files[i])
        THEN Ok(Join(<<"run", "InterOp",
                       files[CHOOSE i \in 1..Len(files) :
                               /\ HasKey(d.files, files[i])
                               /\ \A j \in (i + 1)..Len(files) :
                                    ~HasKey(d.files, files[j])]>>))
        ELSE Fail("FileNotFoundError",
                  "Could not find " \o Join(files) \o " in run/InterOp")

\* Metric.get_file: the first candidate that exists in the InterOp directory
get_file(m, d) ==
    LET files == MetricFile(m).files
    IN  IF \E i \in 1..Len(files) : HasKey(d.files, files[i])
        THEN Ok(Join(<<"run", "InterOp",
                       files[CHOOSE i \in 1..Len(files) :
                               /\ HasKey(d.files, files[i])
                               /\ \A j \in 1..(i - 1) : ~HasKey(d.files, files[j])]>>))
        ELSE Fail("FileNotFoundError",
                  "Could not find " \o Join(files) \o " in run/InterOp")

\* a constructor that looks for InterOp before it looks for SampleSheet.csv
InterOpReader_init_interop_first(d) ==
    IF d.run = "missing" THEN Fail("FileNotFoundError", "Filepath does not exist.")
    ELSE IF d.run # "dir"
    THEN Fail("NotADirectoryError", "Filepath provided is not a directory.")
    ELSE IF d.interop # "dir"
    THEN Fail("FileNotFoundError", "InterOp directory does not exist in run")
    ELSE IF ~d.samplesheet
    THEN Fail("FileNotFoundError", "SampleSheet.csv does not exist in run")
    ELSE Ok([interop_dir |-> "run/InterOp", run_name |-> "run",
             needs_processing |-> "needsprocessing" \in d.markers,
             qc_uploaded |-> "qc_uploaded" \in d.markers])

\* InterOpReader.__init__: the reader, or the first failed check's exception
InterOpReader_init(d) ==
    IF d.run = "missing" THEN Fail("FileNotFoundError", "Filepath does not exist.")
    ELSE IF d.run # "dir"
    THEN Fail("NotADirectoryError", "Filepath provided is not a directory.")
    ELSE IF ~d.samplesheet
    THEN Fail("FileNotFoundError", "SampleSheet.csv does not exist in run")
    ELSE IF d.interop # "dir"
    THEN Fail("FileNotFoundError", "InterOp directory does not exist in run")
    ELSE Ok([interop_dir |-> "run/InterOp", run_name |-> "run",
             needs_processing |-> "needsprocessing" \in d.markers,
             qc_uploaded |-> "qc_uploaded" \in d.markers])

\* metric files of format f as an instrument or the generator leaves them: two
\* records, none, a last record cut short, an old version, and a header whose
\* record_length is one below the layout's
FileSamples(f) ==
    LET two == generate_binary(f, <<generate_row(f, 1), generate_row(f, 2)>>)
        one == generate_binary(f, <<generate_row(f, 1)>>)
        old == gen_header(f, Some(<<BinaryFormat(f).min_version - 1,
                                    BinaryFormat(f).length>>)).val
        short == gen_header(f, Some(<<BinaryFormat(f).min_version,
                                      BinaryFormat(f).length - 1>>)).val
    IN  { write_file(f, None, TRUE, two),
          write_file(f, None, TRUE, <<>>),
          write_file(f, None, FALSE, SubSeq(Concat(two), 1, Len(Concat(two)) - 1)),
          write_file(f, Some(old), TRUE, one),
          write_file(f, Some(short), TRUE, one) }

\* the bytes a metric's canonical file may hold
Contents(m) ==
    IF MetricFile(m).read_method = "" THEN {<<>>}
    ELSE FileSamples(MetricFile(m).read_method)

\* the bytes of a metric's "Out" file
OutContent(m) ==
    IF MetricFile(m).read_method = "" THEN <<>>
    ELSE write_file(MetricFile(m).read_method, None, TRUE,
                    generate_binary(MetricFile(m).read_method,
                                    <<generate_row(MetricFile(m).read_method, 3)>>))

\* InterOp directories: empty, or holding one metric's canonical file, its
\* "Out" file, or both
InterOpListings ==
    {<<>>}
    \cup UNION {
           {<<Item(MetricFile(m).files[2], OutContent(m))>>}
           \cup {<<Item(MetricFile(m).files[1], c)>> : c \in Contents(m)}
           \cup {<<Item(MetricFile(m).files[2], OutContent(m)),
                   Item(MetricFile(m).files[1], c)>> : c \in Contents(m)}
           : m \in MetricNames }
    \cup {<<Item("TileMetrics.bin", c), Item("QMetricsOut.bin", OutContent("QUALITY_METRICS"))>> :
            c \in {OutContent("TILE_METRICS")}}

\* run directories: a missing path, a plain file, and directories with or
\* without SampleSheet.csv, InterOp and the two marker files
Disks ==
    {Disk("missing", FALSE, "missing", {}, <<>>),
     Disk("file", FALSE, "missing", {}, <<>>)}
    \cup {Disk("dir", ss, io, mk, <<>>) :
            ss \in BOOLEAN, io \in {"missing", "file"},
            mk \in SUBSET {"needsprocessing", "qc_uploaded"}}
    \cup {Disk("dir", ss, "dir", mk, fs) :
            ss \in BOOLEAN, mk \in SUBSET {"needsprocessing", "qc_uploaded"},
            fs \in InterOpListings}

\* a finished (or, for op = "open", a pending) call with its outcome
Outcome(op, metric, r, msg) ==
    [op |-> op, metric |-> metric, err |-> r.err, val |-> r.val, msg |-> msg]

InitFiles ==
    /\ fmt = "TILE"
    /\ rows = <<>>
    /\ wargs = [header |-> None, cut |-> 0]
    /\ file = <<>>
    /\ pc = "idle"
    /\ pos = 0
    /\ hdr = <<>>
    /\ out = <<>>
    /\ err = ""
    /\ rec = NoRecord
    /\ res = NoResult
    /\ disk \in Disks
    /\ reader = None
    /\ handles = 0
    /\ ret = NoResult
    /\ recs = <<>>
    /\ lens = None
    /\ summ = NoResult

\* InterOpReader(run_dir)
NewInterOpReader ==
    /\ pc = "idle"
    /\ reader = None
    /\ ret = NoResult
    /\ LET r == InterOpReader_init(disk)
       IN  /\ reader' = IF r.err = "" THEN Some(r.val) ELSE None
           /\ ret' = Outcome("InterOpReader", "", r, IF r.err = "" THEN "" ELSE r.msg)
    /\ UNCHANGED <<disk, handles>>
    /\ UNCHANGED <<codecVars, modelVars, summaryVars>>

\* metric.value.get_file(reader.interop_dir)
GetFile ==
    /\ pc = "idle"
    /\ ~reader.none
    /\ \E m \in MetricNames :
         LET r == get_file(m, disk)
         IN  ret' = Outcome("get_file", m, r, IF r.err = "" THEN "" ELSE r.msg)
    /\ UNCHANGED <<disk, reader, handles>>
    /\ UNCHANGED <<codecVars, modelVars, summaryVars>>

\* a check that is content with one of the requested metrics
check_files_present_any(metric_files, d) ==
    Ok(\E m \in metric_files : get_file(m, d).err = "")

\* InterOpReader.check_files_present: get_file for each requested metric, in
\* the set's order; the first FileNotFoundError is logged and makes it False
check_files_present(metric_files, d) ==
    Ok(\A m \in metric_files : get_file(m, d).err = "")

\* the sets of metrics asked for at once
Requests == SUBSET {"TILE_METRICS", "QUALITY_METRICS", "SUMMARY_RUN"}

\* reader.check_files_present(metric_files)
CheckFilesPresent ==
    /\ pc = "idle"
    /\ ~reader.none
    /\ \E ms \in Requests :
         ret' = Outcome("check_files_present", ms, check_files_present(ms, disk), "")
    /\ UNCHANGED <<disk, reader, handles>>
    /\ UNCHANGED <<codecVars, modelVars, summaryVars>>

\* the name of a path in the InterOp directory
Basename(path) == CHOOSE n \in {MetricFile(m).files[i] : m \in MetricNames, i \in 1..2} :
                    path = Join(<<"run", "InterOp", n>>)

\* a with statement that closes the file only when its body returns
ClosedOnReturn(raised) == ~raised

\* the with statement of read_file closes the file however its body ends
ClosedOnExit(raised) == TRUE

\* a read_file that hands over what was decoded along with the exception
read_file_keeping_records(raised, records, e) ==
    [err |-> IF raised THEN e ELSE "", val |-> records]

\* what read_file's caller gets: list(...) of the records, or only the
\* exception that ended the list's construction
read_file_result(raised, records, e) == IF raised THEN Raise(e) ELSE Ok(records)

\* a read_file that resolves the file before it looks at read_method
read_file_resolving_first(m, d) ==
    IF get_file(m, d).err # "" THEN get_file(m, d)
    ELSE IF MetricFile(m).read_method = ""
    THEN Fail("ReferenceError", "No associated read method for this type!")
    ELSE get_file(m, d)

\* Metric.read_file up to open(): the read_method check, then the resolution
read_file_path(m, d) ==
    IF MetricFile(m).read_method = ""
    THEN Fail("ReferenceError", "No associated read method for this type!")
    ELSE get_file(m, d)

\* reader.read_file(metric) up to the open file: the read_method check, the
\* resolution, and open()
ReadFileEnter ==
    /\ pc = "idle"
    /\ ~reader.none
    /\ \E m \in MetricNames :
         LET path == read_file_path(m, disk)
         IN  IF path.err # ""
             THEN /\ ret' = Outcome("read_file", m, Raise(path.err), path.msg)
                  /\ pc' = "closed"
                  /\ UNCHANGED <<handles, fmt, file>>
             ELSE /\ ret' = Outcome("open", m, path, "")
                  /\ handles' = handles + 1
                  /\ fmt' = MetricFile(m).read_method
                  /\ file' = DictGet(disk.files, Basename(path.val))
                  /\ pc' = "file"
    /\ UNCHANGED <<rows, wargs, pos, hdr, out, err, disk, reader>>
    /\ UNCHANGED <<modelVars, summaryVars>>

\* the end of read_file: list(...) is returned, or the reader's exception
\* propagates, through the with statement
ReadFileExit ==
    /\ pc \in {"done", "raised"}
    /\ ret.op = "open"
    /\ handles' = IF ClosedOnExit(pc = "raised") THEN handles - 1 ELSE handles
    /\ ret' = Outcome("read_file", ret.metric,
                      read_file_result(pc = "raised", out, err), "")
    /\ pc' = "closed"
    /\ UNCHANGED <<fmt, rows, wargs, file, pos, hdr, out, err, disk, reader>>
    /\ UNCHANGED <<modelVars, summaryVars>>

NextFiles ==
    NewInterOpReader \/ GetFile \/ CheckFilesPresent \/ ReadFileEnter
    \/ ReadHeader \/ ReadRecord \/ ReadFileExit

SpecFiles == InitFiles /\ [][NextFiles]_vars

\* ------------------------------------------------- a whole decode

\* F(v), with v evaluated once
With(v, F(_)) == CHOOSE r \in {F(x) : x \in {v}} : TRUE

\* list(read_method(data_file)) run to its end on a stream that stands at
\* position p: read_records' header read and version check, then one read of
\* record_length bytes per turn, each whole chunk decoded by the typed reader;
\* val holds the records yielded before the end, pos the stream's position
DecodeFrom(f, data, p) ==
    LET header == SubSeq(data, p + 1, Min(p + 2, Len(data)))
        u == unpack(HeaderFormat, header)
        start == p + Len(header)
        record_length == ReadSize(u.val, f)
        data_at(i) == SubSeq(data, start + (i - 1) * record_length + 1,
                             Min(start + i * record_length, Len(data)))
        whole == IF record_length = 0 THEN 0
                 ELSE (Len(data) - start) \div record_length
        loop(decoded) ==
            LET n == IF \A i \in 1..whole : decoded[i].err = "" THEN whole
                     ELSE (CHOOSE i \in 1..whole :
                             /\ decoded[i].err # ""
                             /\ \A j \in 1..(i - 1) : decoded[j].err = "") - 1
                last == data_at(n + 1)
            IN  [err |-> IF EndOfStream(Len(last)) THEN ""
                         ELSE IF PartialRecord(Len(last), record_length)
                         THEN "IOError: partial"
                         ELSE decoded[n + 1].err,
                 val |-> [i \in 1..n |-> decoded[i].val],
                 pos |-> start + n * record_length + Len(last)]
    IN  IF u.err # "" THEN [err |-> u.err, val |-> <<>>, pos |-> start]
        ELSE IF VersionTooOld(u.val[1], ReaderMinVersion(f))
        THEN [err |-> "IOError: version", val |-> <<>>, pos |-> start]
        ELSE With([i \in 1..whole |-> Reader(f, data_at(i))], loop)

\* --------------------------------------------------------- summaries

\* the longest sequence of records handed to an aggregator
MaxRecords == 3

\* float(n) for an int n the checker can hold
FloatOf(n) == Canon(n, 0)

\* a + b on floats. The sum is exact where both operands, aligned to the lower
\* exponent, stay below 2^30; the larger operand is returned where the smaller
\* is below a quarter of its last binary place of 53; other pairs are left out
FloatAdd(a, b) ==
    IF a.cls = "nan" \/ b.cls = "nan" THEN NaN
    ELSE IF a.cls = "inf" THEN (IF b.cls = "inf" /\ b.m # a.m THEN NaN ELSE a)
    ELSE IF b.cls = "inf" THEN b
    ELSE IF a.m = 0 THEN b
    ELSE IF b.m = 0 THEN a
    ELSE LET lo == Min(a.e, b.e)
         IN  IF Msb(a) - lo < 30 /\ Msb(b) - lo < 30
             THEN Canon(a.m * Pow2(a.e - lo) + b.m * Pow2(b.e - lo), lo)
             ELSE IF Msb(b) < Msb(a) - 54 THEN a
             ELSE IF Msb(a) < Msb(b) - 54 THEN b
             ELSE [cls |-> "unmodelled", m |-> 0, e |-> 0]

\* sum of a sequence of floats from the left, starting at 0.0
RECURSIVE FloatSum(_)
FloatSum(xs) ==
    IF xs = <<>> THEN Finite(0, 0)
    ELSE FloatAdd(FloatSum(SubSeq(xs, 1, Len(xs) - 1)), xs[Len(xs)])

RECURSIVE Gcd(_, _)
Gcd(a, b) == IF b = 0 THEN a ELSE Gcd(b, a % b)

\* a / b on floats: ZeroDivisionError for a zero divisor, else the quotient
\* (m / d) * 2^e in lowest terms, whose nearest double Python returns
TrueDiv(a, b) ==
    IF b.cls = "finite" /\ b.m = 0 THEN Raise("ZeroDivisionError")
    ELSE IF a.cls = "nan" \/ b.cls = "nan" THEN Ok(NaN)
    ELSE IF a.cls = "inf"
    THEN Ok(IF b.cls = "inf" THEN NaN
            ELSE Inf(IF b.m < 0 THEN 0 - a.m ELSE a.m))
    ELSE IF b.cls = "inf" \/ a.m = 0 THEN Ok(Finite(0, 0))
    ELSE LET g == Gcd(Abs(a.m), Abs(b.m))
             sign == IF b.m < 0 THEN 0 - 1 ELSE 1
         IN  IF Abs(b.m) = g THEN Ok(Finite(sign * (a.m \div g), a.e - b.e))
             ELSE Ok([cls |-> "quotient", m |-> sign * (a.m \div g),
                      d |-> Abs(b.m) \div g, e |-> a.e - b.e])

\* TileMetricCodes
CLUSTER_DENSITY == 100

CLUSTER_DENSITY_PASSING_FILTERS == 101

CLUSTER_COUNT == 102

CLUSTER_COUNT_PASSING_FILTERS == 103

\* the tile records of one metric code, in their order
WithCode(records, code) == SelectSeq(records, LAMBDA r : r.metric_code = code)

\* the metric values of the tile records of one metric code, in their order
Values(records, code) ==
    [i \in 1..Len(WithCode(records, code)) |-> WithCode(records, code)[i].metric_value]

\* an aggregator that takes the density of passing clusters for a density too
summarize_tile_records_with_101(records) ==
    [density_count |-> Len(WithCode(records, CLUSTER_DENSITY))
                       + Len(WithCode(records, CLUSTER_DENSITY_PASSING_FILTERS)),
     density_sum |-> FloatAdd(FloatSum(Values(records, CLUSTER_DENSITY)),
                              FloatSum(Values(records, CLUSTER_DENSITY_PASSING_FILTERS))),
     total_clusters |-> FloatSum(Values(records, CLUSTER_COUNT)),
     passing_clusters |-> FloatSum(Values(records, CLUSTER_COUNT_PASSING_FILTERS))]

\* the loop of summarize_tile_records, and the TileMetricSummary of its sums
RECURSIVE summarize_tile_records(_)
summarize_tile_records(records) ==
    IF records = <<>>
    THEN [density_count |-> 0, density_sum |-> Finite(0, 0),
          total_clusters |-> Finite(0, 0), passing_clusters |-> Finite(0, 0)]
    ELSE LET s == summarize_tile_records(SubSeq(records, 1, Len(records) - 1))
             record == records[Len(records)]
         IN  IF record.metric_code = CLUSTER_DENSITY
             THEN [s EXCEPT !.density_sum = FloatAdd(@, record.metric_value),
                            !.density_count = @ + 1]
             ELSE IF record.metric_code = CLUSTER_COUNT
             THEN [s EXCEPT !.total_clusters = FloatAdd(@, record.metric_value)]
             ELSE IF record.metric_code = CLUSTER_COUNT_PASSING_FILTERS
             THEN [s EXCEPT !.passing_clusters = FloatAdd(@, record.metric_value)]
             ELSE s

\* a pass_rate that divides without looking at total_clusters
pass_rate_unguarded(s) == TrueDiv(s.passing_clusters, s.total_clusters)

\* TileMetricSummary.pass_rate
pass_rate(s) ==
    IF s.total_clusters.cls = "finite" /\ s.total_clusters.m = 0
    THEN Ok(Finite(0, 0))
    ELSE TrueDiv(s.passing_clusters, s.total_clusters)

\* TileMetricSummary.cluster_density
cluster_density(s) ==
    IF s.density_count = 0 THEN Ok(Finite(0, 0))
    ELSE TrueDiv(s.density_sum, FloatOf(s.density_count))

\* the cycle bounds both partitioning aggregators take from read_lengths
last_forward_cycle(read_lengths) ==
    IF read_lengths.none THEN None ELSE Some(read_lengths.val[1])

first_reverse_cycle(read_lengths) ==
    IF read_lengths.none THEN None
    ELSE Some(SumSeq(SubSeq(read_lengths.val, 1, Len(read_lengths.val) - 1)) + 1)

\* a partition that sends the cycles from the last forward cycle on to reverse
BucketOverlapping(cycle, read_lengths) ==
    IF last_forward_cycle(read_lengths).none
       \/ cycle <= last_forward_cycle(read_lengths).val
    THEN "forward"
    ELSE "reverse"

\* the branch a record's cycle takes in the aggregators' loops
Bucket(cycle, read_lengths) ==
    IF last_forward_cycle(read_lengths).none
       \/ cycle <= last_forward_cycle(read_lengths).val
    THEN "forward"
    ELSE IF cycle >= first_reverse_cycle(read_lengths).val THEN "reverse"
    ELSE "neither"

\* a good count that starts one bin late
cycle_good_from_30(quality_bins) == SumSeq(SliceFrom(quality_bins, 30))

\* sum(record["quality_bins"][29:])
cycle_good(quality_bins) == SumSeq(SliceFrom(quality_bins, 29))

\* the loop of summarize_quality_records, and the QualityMetricsSummary of its
\* counts
RECURSIVE summarize_quality_records(_, _)
summarize_quality_records(records, read_lengths) ==
    IF records = <<>>
    THEN [total_count |-> 0, total_reverse |-> 0, good_count |-> 0, good_reverse |-> 0]
    ELSE LET s == summarize_quality_records(SubSeq(records, 1, Len(records) - 1),
                                            read_lengths)
             record == records[Len(records)]
             cycle_clusters == SumSeq(record.quality_bins)
             b == Bucket(record.cycle, read_lengths)
         IN  IF b = "forward"
             THEN [s EXCEPT !.total_count = @ + cycle_clusters,
                            !.good_count = @ + cycle_good(record.quality_bins)]
             ELSE IF b = "reverse"
             THEN [s EXCEPT !.total_reverse = @ + cycle_clusters,
                            !.good_reverse = @ + cycle_good(record.quality_bins)]
             ELSE s

\* QualityMetricsSummary.q30_forward
q30_forward(s) ==
    IF s.total_count = 0 THEN Ok(Finite(0, 0))
    ELSE TrueDiv(FloatOf(s.good_count), FloatOf(s.total_count))

\* QualityMetricsSummary.q30_reverse
q30_reverse(s) ==
    IF s.total_reverse = 0 THEN Ok(Finite(0, 0))
    ELSE TrueDiv(FloatOf(s.good_reverse), FloatOf(s.total_reverse))

\* the summary write_phix_csv returns: the same partition, a sum of error rates
\* and a count of records per bucket, as an ErrorMetricsSummary
RECURSIVE write_phix_csv(_, _)
write_phix_csv(records, read_lengths) ==
    IF records = <<>>
    THEN [error_sum_forward |-> Finite(0, 0), error_count_forward |-> 0,
          error_sum_reverse |-> Finite(0, 0), error_count_reverse |-> 0]
    ELSE LET s == write_phix_csv(SubSeq(records, 1, Len(records) - 1),
                                          read_lengths)
             record == records[Len(records)]
             b == Bucket(record.cycle, read_lengths)
         IN  IF b = "forward"
             THEN [s EXCEPT !.error_sum_forward = FloatAdd(@, record.error_rate),
                            !.error_count_forward = @ + 1]
             ELSE IF b = "reverse"
             THEN [s EXCEPT !.error_sum_reverse = FloatAdd(@, record.error_rate),
                            !.error_count_reverse = @ + 1]
             ELSE s

\* ErrorMetricsSummary.error_rate_forward
error_rate_forward(s) ==
    IF s.error_count_forward = 0 THEN Ok(Finite(0, 0))
    ELSE TrueDiv(s.error_sum_forward, FloatOf(s.error_count_forward))

\* ErrorMetricsSummary.error_rate_reverse
error_rate_reverse(s) ==
    IF s.error_count_reverse = 0 THEN Ok(Finite(0, 0))
    ELSE TrueDiv(s.error_sum_reverse, FloatOf(s.error_count_reverse))

\* the computed fields of a summary of the given kind
Ratios(kind, s) ==
    CASE kind = "tile" ->
           [pass_rate |-> pass_rate(s), cluster_density |-> cluster_density(s)]
      [] kind = "quality" ->
           [q30_forward |-> q30_forward(s), q30_reverse |-> q30_reverse(s)]
      [] kind = "error" ->
           [error_rate_forward |-> error_rate_forward(s),
            error_rate_reverse |-> error_rate_reverse(s)]

\* 50 bins, all zero but for bin number i (counted from 0) holding n
OneBin(i, n) == [j \in 1..QualityBins |-> IF j = i + 1 THEN n ELSE 0]

\* records as the readers yield them, for the three aggregators
TileSamples ==
    { [metric_code |-> CLUSTER_DENSITY, metric_value |-> Finite(25, 1)],
      [metric_code |-> CLUSTER_DENSITY, metric_value |-> Finite(1, 0)],
      [metric_code |-> CLUSTER_DENSITY, metric_value |-> Finite(1, 70)],
      [metric_code |-> CLUSTER_DENSITY, metric_value |-> Finite(0 - 1, 70)],
      [metric_code |-> CLUSTER_DENSITY_PASSING_FILTERS, metric_value |-> Finite(7, 0)],
      [metric_code |-> CLUSTER_COUNT, metric_value |-> Finite(25, 2)],
      [metric_code |-> CLUSTER_COUNT_PASSING_FILTERS, metric_value |-> Finite(5, 4)],
      [metric_code |-> CLUSTER_COUNT_PASSING_FILTERS, metric_value |-> Inf(1)],
      [metric_code |-> 200, metric_value |-> Finite(1, 0 - 1)] }

QualitySamples ==
    { [cycle |-> 1, quality_bins |-> OneBin(29, 30)],
      [cycle |-> 2, quality_bins |-> OneBin(28, 7)],
      [cycle |-> 3, quality_bins |-> [j \in 1..QualityBins |-> 1]],
      [cycle |-> 4, quality_bins |-> OneBin(49, 5)],
      [cycle |-> 5, quality_bins |-> OneBin(0, 3)],
      [cycle |-> 5, quality_bins |-> OneBin(30, 2)] }

ErrorSamples ==
    { [cycle |-> 1, error_rate |-> Finite(1, 0 - 1)],
      [cycle |-> 2, error_rate |-> Finite(3, 0 - 2)],
      [cycle |-> 3, error_rate |-> Finite(1, 0)],
      [cycle |-> 4, error_rate |-> Finite(5, 0 - 3)],
      [cycle |-> 5, error_rate |-> Finite(0, 0)] }

\* read lengths (forward, index, reverse): none, and two that put cycle 3 in
\* the index range or in the reverse read
ReadLengths == {None, Some(<<2, 1, 2>>), Some(<<2, 0, 3>>)}

\* summaries built from stored sums and counts directly
SummarySamples ==
    {[kind |-> "tile", s |-> [density_count |-> c, density_sum |-> x,
                              total_clusters |-> t, passing_clusters |-> q]] :
        c \in {0, 3}, x \in {Finite(0, 0), Finite(1, 70)},
        t \in {Finite(0, 0), Finite(25, 2), NaN}, q \in {Finite(0, 0), Finite(5, 4)}}
    \cup {[kind |-> "quality", s |-> [total_count |-> t, total_reverse |-> u,
                                      good_count |-> g, good_reverse |-> h]] :
            t \in {0, 50}, u \in {0, 7}, g \in {0, 21}, h \in {0, 7}}
    \cup {[kind |-> "error", s |-> [error_sum_forward |-> x, error_count_forward |-> c,
                                    error_sum_reverse |-> y, error_count_reverse |-> d]] :
            x \in {Finite(0, 0), Finite(9, 0 - 2)}, c \in {0, 4},
            y \in {Finite(0, 0), Finite(1, 0 - 1)}, d \in {0, 3}}

\* the sequences of at most MaxRecords elements of S
SeqsUpTo(S) == UNION {[1..n -> S] : n \in 0..MaxRecords}

Summary(op, kind, s, r) == [op |-> op, kind |-> kind, s |-> s, r |-> r]

InitSummary ==
    /\ fmt = "TILE"
    /\ rows = <<>>
    /\ wargs = [header |-> None, cut |-> 0]
    /\ file = <<>>
    /\ pc = "summary"
    /\ pos = 0
    /\ hdr = <<>>
    /\ out = <<>>
    /\ err = ""
    /\ rec = NoRecord
    /\ res = NoResult
    /\ disk = NoDisk
    /\ reader = None
    /\ handles = 0
    /\ ret = NoResult
    /\ \/ recs \in SeqsUpTo(TileSamples) /\ lens = None
       \/ recs \in SeqsUpTo(QualitySamples) \ {<<>>} /\ lens \in ReadLengths
       \/ recs \in SeqsUpTo(ErrorSamples) \ {<<>>} /\ lens \in ReadLengths
    /\ summ = NoResult

\* summarize_tile_records(records)
SummarizeTiles ==
    /\ pc = "summary" /\ summ = NoResult
    /\ recs \in Seq(TileSamples)
    /\ summ' = Summary("summarize", "tile", summarize_tile_records(recs), <<>>)
    /\ UNCHANGED <<recs, lens>>
    /\ UNCHANGED <<codecVars, modelVars, fileVars>>

\* summarize_quality_records(records, read_lengths)
SummarizeQuality ==
    /\ pc = "summary" /\ summ = NoResult
    /\ recs # <<>> /\ recs \in Seq(QualitySamples)
    /\ summ' = Summary("summarize", "quality",
                       summarize_quality_records(recs, lens), <<>>)
    /\ UNCHANGED <<recs, lens>>
    /\ UNCHANGED <<codecVars, modelVars, fileVars>>

\* write_phix_csv(out_file, records, read_lengths)
SummarizeErrors ==
    /\ pc = "summary" /\ summ = NoResult
    /\ recs # <<>> /\ recs \in Seq(ErrorSamples)
    /\ summ' = Summary("summarize", "error",
                       write_phix_csv(recs, lens), <<>>)
    /\ UNCHANGED <<recs, lens>>
    /\ UNCHANGED <<codecVars, modelVars, fileVars>>

\* TileMetricSummary(...), QualityMetricsSummary(...), ErrorMetricsSummary(...)
NewSummary ==
    /\ pc = "summary" /\ summ = NoResult
    /\ recs = <<>>
    /\ \E x \in SummarySamples : summ' = Summary("construct", x.kind, x.s, <<>>)
    /\ UNCHANGED <<recs, lens>>
    /\ UNCHANGED <<codecVars, modelVars, fileVars>>

\* the first access to a summary's computed fields
ReadRatios ==
    /\ pc = "summary"
    /\ summ # NoResult /\ summ.r = <<>>
    /\ summ' = [summ EXCEPT !.r = Ratios(summ.kind, summ.s)]
    /\ UNCHANGED <<recs, lens>>
    /\ UNCHANGED <<codecVars, modelVars, fileVars>>

\* a small non-negative int of the decoder as a number of the checker
Small(b) == b.w[3] * 65536 + b.w[4]

\* the row (lane, tile, cycle, 50 bins) of a quality record of the samples
QualityRow(r) ==
    <<PyInt(1), PyInt(1), PyInt(r.cycle)>>
    \o [j \in 1..QualityBins |-> PyInt(r.quality_bins[j])]

\* the well-formed quality file that holds the records
QualityFile(records) ==
    write_file("QUALITY", None, TRUE,
               generate_binary("QUALITY", [i \in 1..Len(records) |-> QualityRow(records[i])]))

\* the records read_quality yields, as summarize_quality_records reads them
AsSamples(records) ==
    [i \in 1..Len(records) |->
       [cycle |-> Small(records[i].f[3]),
        quality_bins |-> [j \in 1..QualityBins |-> Small(records[i].f[4][j])]]]

\* what summarize_quality_records leaves in the caller's summary: q30_fwd and
\* q30_rev, each only where its total is positive
summary_after(s) ==
    [q30_fwd |-> IF s.total_count > 0
                 THEN Some(TrueDiv(FloatOf(s.good_count), FloatOf(s.total_count)).val)
                 ELSE None,
     q30_rev |-> IF s.total_reverse > 0
                 THEN Some(TrueDiv(FloatOf(s.good_reverse), FloatOf(s.total_reverse)).val)
                 ELSE None]

\* summarize_quality(filename, summary, read_lengths) on a file of the given
\* bytes: the file is opened once; read_quality and summarize_quality_records
\* run on it, and then run a second time on the same open file, from where
\* the first run left the stream. The result tells how the call ended, how
\* many decodes were started, how many records they yielded, and the summary
summarize_quality(data, read_lengths) ==
    LET twice(first) ==
          LET second == DecodeFrom("QUALITY", data, first.pos)
              s1 == summarize_quality_records(AsSamples(first.val), read_lengths)
              s2 == summarize_quality_records(AsSamples(second.val), read_lengths)
          IN  IF first.err # ""
              THEN [err |-> first.err, decodes |-> 1, yielded |-> Len(first.val),
                    summary |-> [q30_fwd |-> None, q30_rev |-> None]]
              ELSE IF second.err # ""
              THEN [err |-> second.err, decodes |-> 2,
                    yielded |-> Len(first.val) + Len(second.val),
                    summary |-> summary_after(s1)]
              ELSE [err |-> "", decodes |-> 2,
                    yielded |-> Len(first.val) + Len(second.val),
                    summary |-> [q30_fwd |-> IF s2.total_count > 0
                                             THEN summary_after(s2).q30_fwd
                                             ELSE summary_after(s1).q30_fwd,
                                 q30_rev |-> IF s2.total_reverse > 0
                                             THEN summary_after(s2).q30_rev
                                             ELSE summary_after(s1).q30_rev]]
    IN  With(DecodeFrom("QUALITY", data, 0), twice)

\* summarize_quality(filename, {}, read_lengths) on the file of the records
SummarizeQualityFile ==
    /\ pc = "summary" /\ summ = NoResult
    /\ recs # <<>> /\ recs \in Seq(QualitySamples) /\ Len(recs) <= MaxRows
    /\ summ' = [op |-> "summarize_quality", kind |-> "quality file",
                s |-> summarize_quality(QualityFile(recs), lens), r |-> <<"summary">>]
    /\ UNCHANGED <<recs, lens>>
    /\ UNCHANGED <<codecVars, modelVars, fileVars>>

NextSummary ==
    SummarizeTiles \/ SummarizeQuality \/ SummarizeQualityFile \/ SummarizeErrors
    \/ NewSummary \/ ReadRatios

SpecSummary == InitSummary /\ [][NextSummary]_vars

\* ------------------------------------------- read_records on any stream

\* the longest record_length a header of the streams declares
MaxRecordLength == 3

\* the longest body, in bytes, after the header of the streams
MaxBody == 7

\* byte streams handed to read_records: an empty one, a single byte, and every
\* header (version, record_length) followed by a body whose i-th byte is i
Streams ==
    {<<>>, <<2>>}
    \cup {<<v, l>> \o [i \in 1..n |-> i] :
            v \in 0..3, l \in 0..MaxRecordLength, n \in 0..MaxBody}

\* read_records(data_file, min_version) is called on an open stream, with the
\* least version of a format of the registry
InitStream ==
    /\ fmt \in {"TILE", "ERROR"}
    /\ rows = <<>>
    /\ wargs = [header |-> None, cut |-> 0]
    /\ file \in Streams
    /\ pc = "stream"
    /\ pos = 0
    /\ hdr = <<>>
    /\ out = <<>>
    /\ err = ""
    /\ rec = NoRecord
    /\ res = NoResult
    /\ disk = NoDisk
    /\ reader = None
    /\ handles = 0
    /\ ret = NoResult
    /\ recs = <<>>
    /\ lens = None
    /\ summ = NoResult

\* read_records up to its loop: data_file.read(2), unpack, the version check
ReadRecordsHeader ==
    /\ pc = "stream"
    /\ LET header == Take(file, pos, 2)
           u == unpack(HeaderFormat, header)
       IN  /\ pos' = pos + Len(header)
           /\ IF u.err # ""
              THEN /\ pc' = "raised" /\ err' = u.err /\ hdr' = hdr
              ELSE /\ hdr' = u.val
                   /\ IF VersionTooOld(u.val[1], ReaderMinVersion(fmt))
                      THEN pc' = "raised" /\ err' = "IOError: version"
                      ELSE pc' = "chunks" /\ err' = err
    /\ UNCHANGED <<fmt, rows, wargs, file, out>>
    /\ UNCHANGED <<modelVars, fileVars, summaryVars>>

\* one turn of read_records' loop, for a consumer that takes the raw chunks:
\* data_file.read(record_length), then the end, the error, or the yield
ReadRecordsChunk ==
    /\ pc = "chunks"
    /\ LET record_length == ReadSize(hdr, fmt)
           data == Take(file, pos, record_length)
           read_length == Len(data)
       IN  /\ pos' = pos + read_length
           /\ IF EndOfStream(read_length)
              THEN pc' = "done" /\ err' = err /\ out' = out
              ELSE IF PartialRecord(read_length, record_length)
              THEN pc' = "raised" /\ err' = "IOError: partial" /\ out' = out
              ELSE pc' = pc /\ err' = err /\ out' = Append(out, data)
    /\ UNCHANGED <<fmt, rows, wargs, file, hdr>>
    /\ UNCHANGED <<modelVars, fileVars, summaryVars>>

NextStream == ReadRecordsHeader \/ ReadRecordsChunk

SpecStream == InitStream /\ [][NextStream]_vars

\* the consumer keeps asking the generator for the next chunk until it ends
SpecStreamFair ==
    InitStream /\ [][NextStream]_vars
    /\ WF_vars(ReadRecordsHeader) /\ WF_vars(ReadRecordsChunk)

\* ------------------------------------------------------- the commands

\* reader.read_file(metric) as one call: the read_method check, the resolution,
\* then the whole decode of the file found
read_file(m, d) ==
    LET path == read_file_path(m, d)
        list(r) == read_file_result(r.err # "", r.val, r.err)
    IN  IF path.err # "" THEN Raise(path.err)
        ELSE With(DecodeFrom(MetricFile(m).read_method,
                             DictGet(d.files, Basename(path.val)), 0), list)

\* the members of MetricFile in the order of their definition
MetricOrder ==
    <<"CORRECTED_INTENSITY_METRICS", "ERROR_METRICS", "EXTENDED_TILE_METRICS",
      "EXTRACTION_METRICS", "IMAGE_METRICS", "PHASING_METRICS", "QUALITY_METRICS",
      "TILE_METRICS", "COLLAPSED_Q_METRICS", "SUMMARY_RUN">>

\* metric.name.lower()
lower(name) ==
    CASE name = "CORRECTED_INTENSITY_METRICS" -> "corrected_intensity_metrics"
      [] name = "ERROR_METRICS" -> "error_metrics"
      [] name = "EXTENDED_TILE_METRICS" -> "extended_tile_metrics"
      [] name = "EXTRACTION_METRICS" -> "extraction_metrics"
      [] name = "IMAGE_METRICS" -> "image_metrics"
      [] name = "PHASING_METRICS" -> "phasing_metrics"
      [] name = "QUALITY_METRICS" -> "quality_metrics"
      [] name = "TILE_METRICS" -> "tile_metrics"
      [] name = "COLLAPSED_Q_METRICS" -> "collapsed_q_metrics"
      [] name = "SUMMARY_RUN" -> "summary_run"

\* a selection in which a named metric without a file is skipped, as under --all
select_metrics_skipping_missing(args, d) ==
    LET found(m) == m # "SUMMARY_RUN" /\ get_file(m, d).err = ""
        picked == IF args.all THEN SelectSeq(MetricOrder, found)
                  ELSE IF ~args.metrics.none THEN SelectSeq(args.metrics.val, found)
                  ELSE <<>>
    IN  IF ~args.all /\ args.metrics.none
        THEN Fail("exit", "Error: Must specify --metrics or --all")
        ELSE IF picked = <<>> THEN Fail("exit", "Error: No metrics to extract")
        ELSE Ok(picked)

\* extract's choice of metrics_to_extract: under --all every metric but
\* SUMMARY_RUN whose file resolves; else the metrics named by --metrics, where
\* SUMMARY_RUN is skipped and the first one without a file ends the command;
\* an empty choice ends it too
select_metrics(args, d) ==
    LET found(m) == m # "SUMMARY_RUN" /\ get_file(m, d).err = ""
        named(m) == m # "SUMMARY_RUN"
    IN  IF args.all
        THEN IF SelectSeq(MetricOrder, found) = <<>>
             THEN Fail("exit", "Error: No metrics to extract")
             ELSE Ok(SelectSeq(MetricOrder, found))
        ELSE IF ~args.metrics.none /\ args.metrics.val # <<>>
        THEN IF \E i \in 1..Len(args.metrics.val) :
                  named(args.metrics.val[i]) /\ ~found(args.metrics.val[i])
             THEN Fail("exit", "Error: file not found")
             ELSE IF SelectSeq(args.metrics.val, named) = <<>>
             THEN Fail("exit", "Error: No metrics to extract")
             ELSE Ok(SelectSeq(args.metrics.val, named))
        ELSE Fail("exit", "Error: Must specify --metrics or --all")

\* a destination named after the metric's canonical file
output_path_of_file_name(args, count, m) ==
    IF count = 1 /\ (args.format = "json" \/ ~args.output.none) THEN args.output
    ELSE IF args.output.none THEN Some(<<MetricFile(m).files[1]>>)
    ELSE Some(args.output.val \o <<MetricFile(m).files[1]>>)

\* where a metric's records go, as the parts of a path: args.output itself when
\* one metric is selected (for json even when it is None), else
\* <metric name in lower case>.<format> under args.output or, without it,
\* under "."
output_path(args, count, m) ==
    IF count = 1 /\ (args.format = "json" \/ ~args.output.none) THEN args.output
    ELSE IF args.output.none THEN Some(<<lower(m) \o "." \o args.format>>)
    ELSE Some(args.output.val \o <<lower(m) \o "." \o args.format>>)

\* one turn of extract's loop: the metric is read; no records, nothing written;
\* else the records are dumped (json, csv) or read again as a dataframe
\* (parquet) and handed to the formatter with their destination
extract_metric(args, count, m, d) ==
    LET write(records) ==
          LET dumps == IF records.err # "" \/ args.format = "parquet" THEN <<>>
                       ELSE [i \in 1..Len(records.val) |->
                               model_dump(records.val[i]).err]
          IN  IF records.err # "" THEN Raise(records.err)
              ELSE IF records.val = <<>> THEN Ok(<<>>)
              ELSE IF \E i \in 1..Len(dumps) : dumps[i] # ""
              THEN Raise(dumps[CHOOSE i \in 1..Len(dumps) :
                                 dumps[i] # "" /\ \A j \in 1..(i - 1) : dumps[j] = ""])
              ELSE Ok(<<[metric |-> m, path |-> output_path(args, count, m),
                         record_count |-> Len(records.val)]>>)
    IN  With(read_file(m, d), write)

\* how a command ended: its exit code, the step it returned from, the metrics
\* selected, the metrics read_file was called for, and the outputs written
Exit(code, step, selected, reads, written) ==
    [code |-> code, step |-> step, selected |-> selected, reads |-> reads,
     written |-> written]

\* extract's test for several metrics without an output path
no_output_for_many(args, count) == count > 1 /\ args.output.none

\* extract.execute(args), on a machine where pandas is installed or not
extract_execute(args, d, pandas) ==
    LET run(sel) ==
          LET ms == sel.val
              count == Len(ms)
              loop(turn) ==
                LET stop == IF \E i \in 1..count : turn[i].err # ""
                            THEN CHOOSE i \in 1..count :
                                   /\ turn[i].err # ""
                                   /\ \A j \in 1..(i - 1) : turn[j].err = ""
                            ELSE count + 1
                    written == Concat([i \in 1..(stop - 1) |-> turn[i].val])
                IN  IF stop <= count
                    THEN Exit(1, "extract", ms, SubSeq(ms, 1, stop), written)
                    ELSE Exit(0, "done", ms, ms, written)
          IN  IF sel.err # "" THEN Exit(1, "select", <<>>, <<>>, <<>>)
              ELSE IF no_output_for_many(args, count)
              THEN Exit(1, "output", ms, <<>>, <<>>)
              ELSE IF args.format = "parquet" /\ ~pandas
              THEN Exit(1, "pandas", ms, <<>>, <<>>)
              ELSE With([i \in 1..count |-> extract_metric(args, count, ms[i], d)],
                        loop)
    IN  IF InterOpReader_init(d).err # "" THEN Exit(1, "reader", <<>>, <<>>, <<>>)
        ELSE With(select_metrics(args, d), run)

\* a line validate prints about one check
Report(ok, text) == [ok |-> ok, text |-> text]

\* checks that stop at the first failure
basic_checks_stopping_at_first(d) ==
    IF d.interop # "dir" THEN <<Report(FALSE, "InterOp directory not found")>>
    ELSE <<Report(TRUE, "InterOp directory found"),
           Report(d.samplesheet, IF d.samplesheet THEN "SampleSheet.csv found"
                                 ELSE "SampleSheet.csv not found")>>

\* validate's checks of a directory: InterOp, then SampleSheet.csv, each
\* reported whatever the other found
basic_checks(d) ==
    <<Report(d.interop = "dir", IF d.interop = "dir" THEN "InterOp directory found"
                                ELSE "InterOp directory not found"),
      Report(d.samplesheet, IF d.samplesheet THEN "SampleSheet.csv found"
                            ELSE "SampleSheet.csv not found")>>

\* validate's report of the two marker files
marker_reports(d) ==
    <<Report("needsprocessing" \in d.markers, "Marker: needsprocessing"),
      Report("qc_uploaded" \in d.markers, "Marker: qc_uploaded")>>

\* the metrics validate finds a file for
available_metrics(d) == SelectSeq(MetricOrder, LAMBDA m : get_file(m, d).err = "")

\* validate.execute(args): exit code, the step it returned from, the lines
\* reported, and the metrics found
validate_execute(d) ==
    LET checks == basic_checks(d)
        has_errors == \E i \in 1..Len(checks) : ~checks[i].ok
    IN  IF d.run = "missing"
        THEN [code |-> 1, step |-> "exists", available |-> <<>>,
              reports |-> <<Report(FALSE, "Run directory does not exist")>>]
        ELSE IF d.run # "dir"
        THEN [code |-> 1, step |-> "is_dir", available |-> <<>>,
              reports |-> <<Report(FALSE, "Path is not a directory")>>]
        ELSE IF has_errors
        THEN [code |-> 1, step |-> "checks", available |-> <<>>,
              reports |-> checks \o marker_reports(d)]
        ELSE IF InterOpReader_init(d).err # ""
        THEN [code |-> 1, step |-> "reader", available |-> <<>>,
              reports |-> checks \o marker_reports(d)
                          \o <<Report(FALSE, "Failed to initialize InterOpReader")>>]
        ELSE IF available_metrics(d) = <<>>
        THEN [code |-> 1, step |-> "metrics", available |-> <<>>,
              reports |-> checks \o marker_reports(d)
                          \o <<Report(FALSE, "No metrics found in InterOp directory")>>]
        ELSE [code |-> 0, step |-> "done", available |-> available_metrics(d),
              reports |-> checks \o marker_reports(d)]

\* the optional entry of an InterOp listing
Entry(name, contents) == {<<>>} \cup {<<Item(name, c)>> : c \in contents}

\* InterOp directories for the commands: files of the metrics whose readers
\* are in the registry, whole, empty, cut short or of a wrong version, and the
\* run summary's file
CommandListings ==
    {t \o x \o s :
       t \in Entry("TileMetrics.bin", FileSamples("TILE")),
       x \in Entry("ExtendedTileMetricsOut.bin",
                   {OutContent("EXTENDED_TILE_METRICS"),
                    write_file("TILE", None, TRUE, <<>>)}),
       s \in Entry("SummaryRun.bin", {<<>>})}

\* run directories for the commands: the ones without an InterOp directory,
\* directories with and without SampleSheet.csv and a marker around an empty
\* or a one-file InterOp, and complete ones around every listing
CommandDisks ==
    {Disk("missing", FALSE, "missing", {}, <<>>),
     Disk("file", FALSE, "missing", {}, <<>>)}
    \cup {Disk("dir", ss, io, mk, <<>>) :
            ss \in BOOLEAN, io \in {"missing", "file"}, mk \in {{}, {"needsprocessing"}}}
    \cup {Disk("dir", ss, "dir", mk, fs) :
            ss \in BOOLEAN, mk \in {{}, {"needsprocessing"}},
            fs \in {<<>>, <<Item("TileMetricsOut.bin", OutContent("TILE_METRICS"))>>}}
    \cup {Disk("dir", TRUE, "dir", {}, fs) : fs \in CommandListings}

\* the command lines given to extract
ExtractArgs ==
    [all : BOOLEAN,
     metrics : {None} \cup {Some(ms) : ms \in
                  {<<"TILE_METRICS">>, <<"EXTENDED_TILE_METRICS">>,
                   <<"TILE_METRICS", "EXTENDED_TILE_METRICS">>,
                   <<"EXTENDED_TILE_METRICS", "TILE_METRICS">>,
                   <<"SUMMARY_RUN">>, <<"SUMMARY_RUN", "TILE_METRICS">>}},
     format : {"json", "csv", "parquet"},
     output : {None, Some(<<"out">>)}]

InitCommands ==
    /\ fmt = "TILE"
    /\ rows = <<>>
    /\ wargs = [header |-> None, cut |-> 0]
    /\ file = <<>>
    /\ pc = "shell"
    /\ pos = 0
    /\ hdr = <<>>
    /\ out = <<>>
    /\ err = ""
    /\ rec = NoRecord
    /\ res = NoResult
    /\ disk \in CommandDisks
    /\ reader = None
    /\ handles = 0
    /\ ret = NoResult
    /\ recs = <<>>
    /\ lens = None
    /\ summ = NoResult

\* extract.execute(args)
Extract ==
    /\ pc = "shell" /\ ret = NoResult
    /\ \E args \in ExtractArgs :
       \E pandas \in IF args.format = "parquet" THEN BOOLEAN ELSE {TRUE} :
         ret' = [op |-> "extract", args |-> args, pandas |-> pandas,
                 exit |-> extract_execute(args, disk, pandas)]
    /\ UNCHANGED <<disk, reader, handles>>
    /\ UNCHANGED <<codecVars, modelVars, summaryVars>>

\* validate.execute(args)
Validate ==
    /\ pc = "shell" /\ ret = NoResult
    /\ ret' = [op |-> "validate", exit |-> validate_execute(disk)]
    /\ UNCHANGED <<disk, reader, handles>>
    /\ UNCHANGED <<codecVars, modelVars, summaryVars>>

NextCommands == Extract \/ Validate

SpecCommands == InitCommands /\ [][NextCommands]_vars

\* ------------------------------------------------ properties of the codec

\* the call returned v (it did not raise)
Returns(r, v) == r.err = "" /\ r.val = v

\* the bytes after the two header bytes
BodyLength == Len(file) - 2

\* the header has been read: the decoder is in its loop or has ended
HeaderRead == pc \in {"loop", "done", "raised"} /\ Len(file) >= 2

\* the file holds exactly what generate_binary made of the rows, under the
\* generator's own header
GeneratedFile == wargs = [header |-> None, cut |-> 0]

\* C1 (as stated): decoding header + generate_binary(rows) yields len(rows)
\* records, and the i-th record yielded equals (==) the record built from the
\* i-th row, for every fixed-width format.
C1_RoundTrip ==
    (pc = "done" /\ GeneratedFile) =>
        /\ Len(out) = Len(rows)
        /\ \A i \in 1..Len(out) : Returns(eq(out[i], RecordOf(fmt, rows[i]).val), TRUE)

\* C2: a header version below the format's minimum ends the decode with the
\* version error before any record byte is read or any record yielded (the
\* stream stays right after the 2-byte header); a version at or above the
\* minimum never gives the version error.
C2_VersionGate ==
    HeaderRead =>
        IF file[1] < BinaryFormat(fmt).min_version
        THEN pc = "raised" /\ err = "IOError: version" /\ pos = 2 /\ out = <<>>
        ELSE err # "IOError: version"

C2_Witness ==
    /\ pc = "raised" /\ err = "IOError: version"
    /\ Len(rows) >= 1 /\ BodyLength >= BinaryFormat(fmt).length

\* C3: with an accepted header whose record_length rl covers the layout, a
\* body of k full records and r trailing bytes yields exactly k records; r = 0
\* ends cleanly, 1 <= r <= rl - 1 ends with the truncated-data error, and no
\* record is ever produced from the partial bytes.
C3_Truncation ==
    (HeaderRead /\ file[1] >= BinaryFormat(fmt).min_version
                /\ file[2] >= BinaryFormat(fmt).length) =>
        LET k == BodyLength \div file[2]
            r == BodyLength % file[2]
        IN  /\ Len(out) <= k
            /\ (pc = "done" \/ pc = "raised") =>
                  /\ Len(out) = k
                  /\ (r = 0 => pc = "done" /\ err = "")
                  /\ (r >= 1 => pc = "raised" /\ err = "IOError: partial")

C3_Witness ==
    /\ pc = "raised" /\ err = "IOError: partial"
    /\ Len(out) >= 1
    /\ BodyLength % file[2] = file[2] - 1

\* C4 (as stated): each record consumes the layout's fixed length whatever
\* record_length the header declares, and the header's record_length never
\* changes whether a record decodes.
C4_LayoutLengthConsumed ==
    HeaderRead /\ file[1] >= BinaryFormat(fmt).min_version =>
        /\ (pc = "loop" => pos = 2 + Len(out) * BinaryFormat(fmt).length)
        /\ err # "struct.error"

\* C4 (amended): each record consumes the record_length the header declares:
\* after n records the stream is at 2 + n * record_length; the n-th record is
\* built from the first layout-length bytes of the n-th such chunk; and a full
\* chunk fails to decode exactly when record_length is below the layout length.
C4_HeaderLengthConsumed ==
    HeaderRead /\ file[1] >= BinaryFormat(fmt).min_version =>
        LET rl == file[2]
            L  == BinaryFormat(fmt).length
        IN  /\ (pc = "loop" => pos = 2 + Len(out) * rl)
            /\ \A i \in 1..Len(out) :
                  Returns(ReadOne(fmt, SubSeq(file, 2 + (i - 1) * rl + 1,
                                              2 + (i - 1) * rl + L)),
                          out[i])
            /\ (err = "struct.error" => rl < L /\ out = <<>>)
            /\ (pc \in {"done", "raised"} /\ 0 < rl /\ rl < L /\ BodyLength >= rl
                   => err = "struct.error")

C4_Witness ==
    /\ pc = "loop" /\ Len(out) >= 1
    /\ file[2] > BinaryFormat(fmt).length
    /\ pos = 2 + file[2]

\* the record lengths as the registry is described
StatedLength(f) ==
    CASE f = "ERROR" -> 20
      [] f = "TILE" -> 10
      [] f = "QUALITY" -> 106
      [] f = "CORRECTEDINTENSITY" -> 48
      [] f = "EXTRACTION" -> 38
      [] f = "IMAGE" -> 12
      [] f = "PHASING" -> 14

\* C5 (as stated): the registry lengths are error 20, tile 10, quality 106,
\* corrected intensity 48, extraction 38, image 12, phasing 14, and each is the
\* sum of the widths of its layout's fields.
C5_StatedLengths ==
    \A f \in Formats :
        /\ BinaryFormat(f).length = StatedLength(f)
        /\ BinaryFormat(f).length = calcsize(BinaryFormat(f).format)

\* C5 (amended): the registry lengths are error 30, tile 10, quality 206,
\* corrected intensity 48, extraction 38, image 12, phasing 14, and each is the
\* sum of the widths of its layout's fields.
C5_RegistryLengths ==
    \A f \in Formats :
        /\ BinaryFormat(f).length =
             (IF f = "ERROR" THEN 30 ELSE IF f = "QUALITY" THEN 206 ELSE StatedLength(f))
        /\ BinaryFormat(f).length = calcsize(BinaryFormat(f).format)

C5_Witness ==
    /\ fmt = "QUALITY" /\ GeneratedFile
    /\ pc = "loop" /\ Len(out) = 1 /\ pos = 2 + 206

\* ------------------------------------------ properties of the record models

\* C6: with valid lane, tile and cycle, constructing a QualityRecord succeeds
\* exactly when it is given 50 quality bins; any other number of bins raises
\* the validation error and no record is produced.
C6_FiftyBins ==
    (res.op = "construct" /\ res.kind = "QualityRecord"
        /\ \A i \in 1..3 : NonNegative(res.values[i])) =>
        /\ (res.err = "" <=> Len(res.values[4]) = 50)
        /\ (res.err = "" => rec = [kind |-> "QualityRecord", f |-> res.values])
        /\ (res.err # "" => res.err = "ValidationError" /\ rec = NoRecord)

C6_Witness ==
    /\ res.op = "construct" /\ res.kind = "QualityRecord"
    /\ Len(res.values[4]) = 49
    /\ res.err = "ValidationError" /\ rec = NoRecord

\* C7 (as stated): no record exists with a negative integer field, the
\* datestamp and each of the 50 quality bins included.
C7_NoNegativeIntegers ==
    rec # NoRecord =>
        \A i \in 1..Len(rec.f) :
            CASE ModelFields(rec.kind)[i].type = "uint" -> NonNegative(rec.f[i])
              [] ModelFields(rec.kind)[i].type = "bins" ->
                   \A j \in 1..Len(rec.f[i]) : NonNegative(rec.f[i][j])
              [] OTHER -> TRUE

\* us microseconds is v intervals of 100 ns rounded to a whole microsecond
NearestMicrosecond(us, v) ==
    LET d == DivMod10(v)
        q == Strip(d.q)
    IN  \/ us = FromBits(q) /\ d.r <= 5
        \/ us = FromBits(IncBits(q)) /\ d.r >= 5

\* C8 (as stated): the datetime of an ExtractionRecord is defined by the low
\* 62 bits v of its datestamp alone and is the epoch 0001-01-01T00:00:00 plus v
\* intervals of 100 ns (to the microsecond a timestamp resolves); datestamp 0
\* gives the epoch itself.
C8_DatetimeOfLow62Bits ==
    res.op = "datetime" =>
        /\ res.err = ""
        /\ NearestMicrosecond(res.val, MaskLow62(rec.f[12]))
        /\ (IsZero(rec.f[12]) => IsZero(res.val))

\* two records are of one kind, their float fields within the tolerance and
\* their other fields the same
FieldsAgree(a, b) ==
    /\ a.kind = b.kind
    /\ \A i \in 1..Len(ModelFields(a.kind)) :
          IF ModelFields(a.kind)[i].type = "float" THEN isclose(a.f[i], b.f[i])
          ELSE a.f[i] = b.f[i]

\* C9 (as stated): comparing two records gives true exactly when they are of
\* the same kind, every non-float field is exactly equal and every float field
\* is within relative tolerance 1e-7; records of different kinds are unequal.
C9_Equality ==
    res.op = "eq" =>
        /\ res.err = ""
        /\ res.val = FieldsAgree(rec, res.other)

\* C10: the flat mapping of a QualityRecord, in either package's serializer,
\* has exactly 53 entries under distinct keys: lane, tile, cycle, then 50
\* keyed entries of which the j-th holds the j-th quality bin.
C10_FlatMapping ==
    (res.op \in {"model_dump", "model_dump_interop_reader"}
        /\ rec.kind = "QualityRecord") =>
        /\ res.err = ""
        /\ Len(res.val) = 53
        /\ res.val[1] = Item("lane", rec.f[1])
        /\ res.val[2] = Item("tile", rec.f[2])
        /\ res.val[3] = Item("cycle", rec.f[3])
        /\ \A j \in 1..50 : res.val[3 + j].v = rec.f[4][j]
        /\ \A i, j \in 1..53 : i # j => res.val[i].k # res.val[j].k

C10_Witness ==
    /\ res.op = "model_dump" /\ rec.kind = "QualityRecord"
    /\ Len(res.val) = 53
    /\ rec.f[4][1] # rec.f[4][2]
    /\ res.val[5].v = rec.f[4][2]

\* ----------------------------- properties of the run directory and its files

\* the candidates of metric m that exist in the InterOp directory
Existing(m) ==
    {i \in 1..Len(MetricFile(m).files) : HasKey(disk.files, MetricFile(m).files[i])}

\* C11: the resolver returns the first candidate, in the order canonical name
\* then "Out" name, that exists in the directory; when none exists it fails
\* with a not-found error whose message names every candidate; it never
\* returns a path that does not exist.
C11_FirstExistingCandidate ==
    ret.op = "get_file" =>
        LET files == MetricFile(ret.metric).files
        IN  IF Existing(ret.metric) = {}
            THEN /\ ret.err = "FileNotFoundError"
                 /\ ret.msg = "Could not find " \o files[1] \o "/" \o files[2]
                                \o " in run/InterOp"
            ELSE /\ ret.err = ""
                 /\ \E i \in Existing(ret.metric) :
                      /\ ret.val = "run/InterOp/" \o files[i]
                      /\ \A j \in Existing(ret.metric) : i <= j

C11_Witness ==
    /\ ret.op = "get_file"
    /\ Existing(ret.metric) = {1, 2}
    /\ ret.val = "run/InterOp/" \o MetricFile(ret.metric).files[1]

\* C20: constructing the reader checks, in this order, that the path exists
\* (else FileNotFoundError), that it is a directory (else NotADirectoryError),
\* that SampleSheet.csv exists (else FileNotFoundError) and that InterOp exists
\* and is a directory (else FileNotFoundError): the first failed check decides
\* the exception. When all pass, the reader is built and needs_processing and
\* qc_uploaded tell whether the two marker files exist.
C20_ConstructionChecks ==
    ret.op = "InterOpReader" =>
        /\ disk.run = "missing" =>
             ret.err = "FileNotFoundError" /\ ret.msg = "Filepath does not exist."
        /\ disk.run = "file" =>
             /\ ret.err = "NotADirectoryError"
             /\ ret.msg = "Filepath provided is not a directory."
        /\ (disk.run = "dir" /\ ~disk.samplesheet) =>
             /\ ret.err = "FileNotFoundError"
             /\ ret.msg = "SampleSheet.csv does not exist in run"
        /\ (disk.run = "dir" /\ disk.samplesheet /\ disk.interop # "dir") =>
             /\ ret.err = "FileNotFoundError"
             /\ ret.msg = "InterOp directory does not exist in run"
        /\ (disk.run = "dir" /\ disk.samplesheet /\ disk.interop = "dir") =>
             /\ ret.err = ""
             /\ ~reader.none
             /\ reader.val.needs_processing = ("needsprocessing" \in disk.markers)
             /\ reader.val.qc_uploaded = ("qc_uploaded" \in disk.markers)
        /\ ret.err # "" => reader.none

C20_Witness ==
    /\ ret.op = "InterOpReader"
    /\ disk.run = "dir" /\ ~disk.samplesheet /\ disk.interop = "missing"
    /\ ret.msg = "SampleSheet.csv does not exist in run"

\* C17: read_file holds at most one open file at any time, and when it has
\* returned or raised (no read method, no file, a version error, a truncated
\* record, an undecodable record) the file it opened is closed.
C17_HandleReleased ==
    /\ handles \in {0, 1}
    /\ ret.op = "read_file" => handles = 0
    /\ pc \in {"idle", "closed"} => handles = 0

C17_Witness ==
    /\ ret.op = "read_file"
    /\ ret.err = "IOError: version"
    /\ handles = 0

\* the i-th record-sized chunk of the open file's body
Chunk(i) ==
    SubSeq(file, 2 + (i - 1) * hdr[2] + 1, Min(2 + i * hdr[2], Len(file)))

\* the number of records that lie whole, and decodable, before the first chunk
\* that is short or does not decode
WholeRecords ==
    CHOOSE n \in 0..Len(file) :
        /\ \A i \in 1..n : Len(Chunk(i)) = hdr[2] /\ Reader(fmt, Chunk(i)).err = ""
        /\ \/ Len(Chunk(n + 1)) < hdr[2]
           \/ Reader(fmt, Chunk(n + 1)).err # ""

\* the decoder failed in its loop, past the header and its version check
FailedInRecord == hdr # <<>> /\ err # "IOError: version"

\* the records decoded from the first n chunks
RecordsBefore(n) == [i \in 1..n |-> Reader(fmt, Chunk(i)).val]

\* C16 (as stated): when decoding fails, the consumer has every record that
\* lies wholly before the failure and none at or after it, whether the
\* consumer iterates the lazy sequence or calls read_file.
C16_DeliveredBeforeFailure ==
    /\ (pc = "raised" /\ FailedInRecord) => out = RecordsBefore(WholeRecords)
    /\ (pc = "raised" /\ ~FailedInRecord) => out = <<>>
    /\ (ret.op = "read_file" /\ ret.err \in {"IOError: partial", "struct.error"}) =>
         ret.val = RecordsBefore(WholeRecords)

\* C16 (amended): a consumer iterating the lazy sequence has, when decoding
\* fails, every record that lies wholly before the failure and none at or
\* after it; a caller of read_file gets the exception and no records.
C16_DeliveredToIterator ==
    /\ (pc = "raised" /\ FailedInRecord) => out = RecordsBefore(WholeRecords)
    /\ (pc = "raised" /\ ~FailedInRecord) => out = <<>>
    /\ (ret.op = "read_file" /\ ret.err # "") => ret.val = <<>>

C16_Witness ==
    /\ ret.op = "read_file"
    /\ ret.err = "IOError: partial"
    /\ Len(out) = 1
    /\ out = RecordsBefore(1)

\* ------------------------------------------------ properties of the summaries

\* the outcome r of a ratio is num / den, or 0.0 where den is zero, and no
\* exception: for finite operands by cross-multiplication
IsRatio(r, num, den) ==
    /\ r.err = ""
    /\ IF den.cls = "finite" /\ den.m = 0 THEN r.val = Finite(0, 0)
       ELSE IF num.cls = "nan" \/ den.cls = "nan" THEN r.val = NaN
       ELSE IF num.cls = "inf" THEN r.val.cls \in {"inf", "nan"}
       ELSE IF den.cls = "inf" \/ num.m = 0 THEN r.val = Finite(0, 0)
       ELSE /\ r.val.cls \in {"finite", "quotient"}
            /\ r.val.e = num.e - den.e
            /\ r.val.m * den.m
                 = num.m * (IF r.val.cls = "quotient" THEN r.val.d ELSE 1)

\* C12: each of the six derived ratios of the summaries is defined for all
\* stored sums and counts: it is exactly 0 when its denominator is 0, raising
\* no division error, and the numerator divided by the denominator otherwise.
C12_RatiosDefined ==
    (summ # NoResult /\ summ.r # <<>>) =>
        /\ summ.kind = "tile" =>
             /\ IsRatio(summ.r.pass_rate, summ.s.passing_clusters, summ.s.total_clusters)
             /\ IsRatio(summ.r.cluster_density, summ.s.density_sum,
                        FloatOf(summ.s.density_count))
        /\ summ.kind = "quality" =>
             /\ IsRatio(summ.r.q30_forward, FloatOf(summ.s.good_count),
                        FloatOf(summ.s.total_count))
             /\ IsRatio(summ.r.q30_reverse, FloatOf(summ.s.good_reverse),
                        FloatOf(summ.s.total_reverse))
        /\ summ.kind = "error" =>
             /\ IsRatio(summ.r.error_rate_forward, summ.s.error_sum_forward,
                        FloatOf(summ.s.error_count_forward))
             /\ IsRatio(summ.r.error_rate_reverse, summ.s.error_sum_reverse,
                        FloatOf(summ.s.error_count_reverse))

C12_Witness ==
    /\ summ # NoResult /\ summ.r # <<>>
    /\ summ.kind = "tile"
    /\ summ.s.total_clusters = Finite(0, 0)
    /\ summ.s.passing_clusters = Finite(5, 4)
    /\ summ.r.pass_rate = Ok(Finite(0, 0))

\* the positions of the records in the forward and in the reverse cycle range
Forward ==
    {i \in 1..Len(recs) : lens.none \/ recs[i].cycle <= lens.val[1]}

Reverse ==
    {i \in 1..Len(recs) : ~lens.none /\ recs[i].cycle >= lens.val[1] + lens.val[2] + 1}

\* the sum of bins lo..hi (counted from 0) over the records at positions I
BinSum(I, lo, hi) ==
    SumSeq([i \in 1..Len(recs) |->
              IF i \in I
              THEN SumSeq(SubSeq(recs[i].quality_bins, lo + 1, hi + 1))
              ELSE 0])

Orders(n) == {p \in [1..n -> 1..n] : \A i, j \in 1..n : p[i] = p[j] => i = j}

\* the records in the order p
Reordered(p) == [i \in 1..Len(recs) |-> recs[p[i]]]

\* a float whose sums with a few of its like are exact: a multiple of 2^-24
\* below 2^24
ExactlySummable(x) ==
    x.cls = "finite" /\ (x.m = 0 \/ (x.e >= 0 - 24 /\ Msb(x) < 24))

\* the tile summary accumulates as C14 states, and its ratios are those of its
\* sums
TileSums ==
    /\ summ.s.density_count = Len(WithCode(recs, 100))
    /\ summ.s.density_sum = FloatSum(Values(recs, 100))
    /\ summ.s.total_clusters = FloatSum(Values(recs, 102))
    /\ summ.s.passing_clusters = FloatSum(Values(recs, 103))
    /\ summ.s = summarize_tile_records(
                    SelectSeq(recs, LAMBDA r : r.metric_code \in {100, 102, 103}))
    /\ summ.r # <<>> =>
         /\ IsRatio(summ.r.cluster_density, summ.s.density_sum,
                    FloatOf(summ.s.density_count))
         /\ IsRatio(summ.r.pass_rate, summ.s.passing_clusters, summ.s.total_clusters)

RateSum(I) ==
    FloatSum([k \in 1..Len(SelectSeq([i \in 1..Len(recs) |-> i], LAMBDA i : i \in I)) |->
                recs[SelectSeq([i \in 1..Len(recs) |-> i], LAMBDA i : i \in I)[k]].error_rate])

IndexRecordBytes(row) ==
    PackUInt(1, row[1]).val \o PackUInt(1, row[2]).val \o PackUInt(1, row[3]).val
    \o WordBytesLE(Len(row[5])) \o row[5]
    \o PackUInt(2, row[6]).val
    \o WordBytesLE(Len(row[8])) \o row[8]
    \o WordBytesLE(Len(row[10])) \o row[10]

DefaultFile == pc # "rows" /\ wargs.header.none /\ wargs.cut = 0

\* the version and record length bytes of a fixed-width file are those the
\* decoder takes
FixedWidthHeader ==
    /\ Len(file) = 2 + Len(Concat(generate_binary(fmt, rows)))
    /\ SubSeq(file, 3, Len(file)) = Concat(generate_binary(fmt, rows))
    /\ file[1] >= BinaryFormat(fmt).min_version
    /\ file[2] = BinaryFormat(fmt).length
    /\ pc # "raised"
    /\ pc = "done" => Len(out) = Len(rows)

\* C19 (as stated): every file a generator's write_file writes with the
\* default header starts with exactly two header bytes, version and
\* record_length, for every kind including the index format; for a
\* fixed-width kind the version is at least the format's minimum, the
\* record_length is the format's fixed length, and the decoder accepts the file.
C19_TwoHeaderBytes ==
    DefaultFile =>
        /\ Len(file) = 2 + Len(Concat(generate_binary(fmt, rows)))
        /\ SubSeq(file, 3, Len(file)) = Concat(generate_binary(fmt, rows))
        /\ fmt \in Formats => FixedWidthHeader

\* C19 (amended): a file written with the default header starts with two
\* header bytes, version and record_length, for every fixed-width kind, with
\* the version at least the format's minimum and the record_length the
\* format's fixed length, so that the decoder accepts it; an index file
\* starts with one header byte, the version 1, and its first record follows.
C19_HeaderBytes ==
    DefaultFile =>
        /\ fmt \in Formats => FixedWidthHeader
        /\ fmt = "INDEX" =>
             /\ file = <<1>> \o Concat(generate_binary(fmt, rows))
             /\ pc # "raised"

C19_Witness ==
    /\ DefaultFile
    /\ fmt = "QUALITY"
    /\ pc = "done"
    /\ Len(rows) = 1
    /\ SubSeq(file, 1, 2) = <<4, 206>>

\* ------------------------------------------ properties of the reader's calls

\* C21: check_files_present returns True iff every requested metric has at
\* least one of its candidate files in the InterOp directory, False otherwise,
\* never raises for a missing file, and returns True for an empty request.
C21_FilesPresent ==
    ret.op = "check_files_present" =>
        /\ ret.err = ""
        /\ ret.val = (\A m \in ret.metric : Existing(m) # {})
        /\ ret.metric = {} => ret.val

C21_Witness ==
    /\ ret.op = "check_files_present"
    /\ ret.metric = {"TILE_METRICS", "QUALITY_METRICS"}
    /\ ret.val = TRUE

Extracted == ret.op = "extract" /\ InterOpReader_init(disk).err = ""

\* the metrics other than SUMMARY_RUN that have a file, in the registry's order
Found == SelectSeq(MetricOrder, LAMBDA m : m # "SUMMARY_RUN" /\ Existing(m) # {})

\* a metric other than SUMMARY_RUN is named by --metrics and has no file
NamedMissing ==
    /\ ~ret.args.metrics.none
    /\ \E i \in 1..Len(ret.args.metrics.val) :
         /\ ret.args.metrics.val[i] # "SUMMARY_RUN"
         /\ Existing(ret.args.metrics.val[i]) = {}

\* SUMMARY_RUN is neither read nor written
SummaryRunLeftOut ==
    /\ \A i \in 1..Len(ret.exit.reads) : ret.exit.reads[i] # "SUMMARY_RUN"
    /\ \A i \in 1..Len(ret.exit.written) : ret.exit.written[i].metric # "SUMMARY_RUN"

\* C23 (as stated): with --metrics, a named metric without a file makes extract
\* return 1 and write nothing; with --all, metrics without a file are skipped
\* and extract returns 1 only if no metric at all is found; with neither
\* option it returns 1; SUMMARY_RUN is never extracted.
C23_MetricSelectionAsStated ==
    Extracted =>
        /\ (~ret.args.all /\ NamedMissing) =>
              ret.exit.code = 1 /\ ret.exit.written = <<>>
        /\ ret.args.all =>
              /\ Found # <<>> => ret.exit.selected = Found
              /\ ret.exit.code = 1 => Found = <<>>
        /\ (~ret.args.all /\ ret.args.metrics.none) => ret.exit.code = 1
        /\ SummaryRunLeftOut

\* C23 (amended): with --metrics and without --all, a named metric other than
\* SUMMARY_RUN without a file makes extract return 1 from the selection, with
\* nothing read and nothing written; with --all, metrics without a file are
\* skipped, the selection is every metric found, and the selection itself
\* fails only if none is found, while the command can still return 1 later
\* (several metrics without an output path, parquet without pandas, a metric
\* that fails to read); with neither option it returns 1; SUMMARY_RUN is never
\* extracted.
C23_MetricSelection ==
    Extracted =>
        /\ (~ret.args.all /\ NamedMissing) =>
              /\ ret.exit.code = 1 /\ ret.exit.step = "select"
              /\ ret.exit.reads = <<>> /\ ret.exit.written = <<>>
        /\ ret.args.all =>
              /\ Found # <<>> => ret.exit.selected = Found
              /\ ret.exit.step = "select" <=> Found = <<>>
              /\ (ret.exit.code = 1 /\ Found # <<>>) =>
                    ret.exit.step \in {"output", "pandas", "extract"}
        /\ (~ret.args.all /\ ret.args.metrics.none) =>
              ret.exit.code = 1 /\ ret.exit.step = "select"
        /\ SummaryRunLeftOut

\* --all skipped the extended tile metrics, which have no file, and extracted
\* the tile metrics
C23_Witness ==
    /\ Extracted /\ ret.args.all
    /\ Existing("EXTENDED_TILE_METRICS") = {}
    /\ ret.exit.selected = <<"TILE_METRICS">>
    /\ ret.exit.code = 0 /\ Len(ret.exit.written) = 1

\* extract selected more than one metric
SeveralSelected == Extracted /\ Len(ret.exit.selected) > 1

\* the first i selected metrics all read without error
ReadUpTo(i) == \A j \in 1..i : read_file(ret.exit.selected[j], disk).err = ""

\* the outputs written for a metric
WrittenFor(m) ==
    {ret.exit.written[i].path : i \in {j \in 1..Len(ret.exit.written) :
                                         ret.exit.written[j].metric = m}}

\* C24: with more than one metric selected and no output path, extract returns
\* 1 before it reads any metric or writes anything; with more than one metric
\* selected and an output path, where the extraction loop runs, every metric
\* read with at least one record is written to
\* <output>/<metric name in lower case>.<format>, and a metric read with no
\* records gets no file and does not make the command fail.
C24_OutputPath ==
    SeveralSelected =>
        /\ ret.args.output.none =>
              /\ ret.exit.code = 1
              /\ ret.exit.reads = <<>> /\ ret.exit.written = <<>>
        /\ (~ret.args.output.none /\ ret.exit.step \in {"extract", "done"}) =>
              /\ \A i \in 1..Len(ret.exit.selected) :
                    LET m == ret.exit.selected[i]
                    IN  ReadUpTo(i) =>
                          IF read_file(m, disk).val = <<>>
                          THEN WrittenFor(m) = {}
                          ELSE WrittenFor(m) =
                                 {Some(ret.args.output.val
                                       \o <<lower(m) \o "." \o ret.args.format>>)}
              /\ ReadUpTo(Len(ret.exit.selected)) => ret.exit.code = 0

\* --all with -o out and csv, on tile metrics of two records and extended tile
\* metrics of none: one file, out/tile_metrics.csv, and exit code 0
C24_Witness ==
    /\ SeveralSelected
    /\ ret.args.format = "csv"
    /\ ret.exit.selected = <<"EXTENDED_TILE_METRICS", "TILE_METRICS">>
    /\ read_file("EXTENDED_TILE_METRICS", disk) = Ok(<<>>)
    /\ ret.exit.code = 0
    /\ ret.exit.written = <<[metric |-> "TILE_METRICS",
                             path |-> Some(<<"out", "tile_metrics.csv">>),
                             record_count |-> 2]>>

\* validate printed the line
Reported(ok, text) ==
    \E i \in 1..Len(ret.exit.reports) : ret.exit.reports[i] = Report(ok, text)

\* C25: validate returns 0 iff the run path exists, is a directory, holds an
\* InterOp directory and a SampleSheet.csv, and at least one metric resolves to
\* a file; else it returns 1. For a directory, InterOp and SampleSheet.csv are
\* both checked and reported, whatever the other check found, before it
\* returns 1; the marker files never change the exit code.
C25_Validate ==
    ret.op = "validate" =>
        /\ ret.exit.code \in {0, 1}
        /\ ret.exit.code = 0 <=>
              /\ disk.run = "dir"
              /\ disk.interop = "dir"
              /\ disk.samplesheet
              /\ \E m \in MetricNames : Existing(m) # {}
        /\ disk.run = "dir" =>
              /\ IF disk.interop = "dir" THEN Reported(TRUE, "InterOp directory found")
                  ELSE Reported(FALSE, "InterOp directory not found")
              /\ IF disk.samplesheet THEN Reported(TRUE, "SampleSheet.csv found")
                  ELSE Reported(FALSE, "SampleSheet.csv not found")
        /\ \A mk \in SUBSET {"needsprocessing", "qc_uploaded"} :
              validate_execute([disk EXCEPT !.markers = mk]).code = ret.exit.code

\* a directory without InterOp and without SampleSheet.csv: both are reported
\* and validate returns 1
C25_Witness ==
    /\ ret.op = "validate"
    /\ disk.run = "dir" /\ disk.interop = "missing" /\ ~disk.samplesheet
    /\ Reported(FALSE, "InterOp directory not found")
    /\ Reported(FALSE, "SampleSheet.csv not found")
    /\ ret.exit.code = 1

\* ------------------------------- properties of equality and of the timestamp

\* a QualityRecord was compared with a record of any kind
QualityCompared == res.op = "eq" /\ rec.kind = "QualityRecord"

\* C26 (as stated): equality is total on Quality Records: comparing one with
\* any record returns a boolean and never raises, and returns true iff the
\* other is a Quality Record with the same lane, tile and cycle and the same
\* 50 bins.
C26_QualityEqualityTotal ==
    QualityCompared =>
        /\ res.err = ""
        /\ res.val \in BOOLEAN
        /\ res.val <=> /\ res.other.kind = "QualityRecord"
                       /\ \A i \in 1..3 : res.other.f[i] = rec.f[i]
                       /\ \A j \in 1..QualityBins : res.other.f[4][j] = rec.f[4][j]

\* the timestamp of an ExtractionRecord was asked for
TimestampAsked == res.op = "datetime" /\ rec.kind = "ExtractionRecord"

\* C27 (as stated): the timestamp is defined for every datestamp from 0 to
\* 2^64 - 1: the access succeeds, without overflow, and gives the epoch plus
\* (datestamp mod 2^62) intervals of 100 ns, no low-order interval lost beyond
\* the microsecond a timestamp resolves.
C27_TimestampDefined ==
    TimestampAsked =>
        /\ res.err # "OverflowError"
        /\ res.err = ""
        /\ NearestMicrosecond(res.val, MaskLow62(rec.f[12]))

\* ------------------------------------------- properties of read_records

\* the generator has ended, cleanly or with an error
Ended == pc \in {"done", "raised"}

\* the header was read whole and its version accepted
InLoop == hdr # <<>> /\ err # "IOError: version"

\* C28: read_records ends on every finite stream: after finitely many reads it
\* is at a clean end of stream or at an error; on a stream of 2 + n bytes with
\* an accepted header of record_length L > 0 it yields exactly floor(n / L)
\* chunks, and with record_length 0 it ends at once with none.
C28_Terminates ==
    /\ <>Ended
    /\ [](Ended /\ InLoop =>
            /\ hdr[2] > 0 => Len(out) = (Len(file) - 2) \div hdr[2]
            /\ hdr[2] = 0 => out = <<>> /\ pc = "done" /\ pos = 2)

\* a stream of seven body bytes under record_length 3 ended, after two chunks,
\* at the partial record
C28_Witness ==
    /\ Ended /\ InLoop
    /\ Len(file) = 9 /\ hdr[2] = 3
    /\ Len(out) = 2 /\ err = "IOError: partial"

\* C29: read_records goes through the stream once and forward only: the
\* position never decreases; after k chunks exactly 2 + k * record_length
\* bytes are consumed; the chunks are the successive slices of the body, so no
\* byte is read twice.
C29_ForwardOnly ==
    /\ [][pos' >= pos]_vars
    /\ [](InLoop /\ ~Ended => pos = 2 + Len(out) * hdr[2])
    /\ [](\A k \in 1..Len(out) :
            /\ 2 + k * hdr[2] <= Len(file)
            /\ out[k] = [i \in 1..hdr[2] |-> file[2 + (k - 1) * hdr[2] + i]])
    /\ [](pos <= Len(file))

\* two chunks of three bytes have been yielded and the stream stands at 8
C29_Witness ==
    /\ pc = "chunks" /\ hdr[2] = 3
    /\ out = <<<<1, 2, 3>>, <<4, 5, 6>>>>
    /\ pos = 8

\* ------------------------------------------ properties of summarize_quality

\* summarize_quality ran on a well-formed quality file
QualityFileSummarized == summ # NoResult /\ summ.op = "summarize_quality"

\* C30 (as stated): no operation starts a second decode on an exhausted stream
\* without reopening or reseeking it; summarize_quality on a well-formed
\* quality file decodes each record exactly once, returns without error, and
\* leaves q30_fwd = good / total of the forward records in the summary.
C30_DecodedOnce ==
    QualityFileSummarized =>
        /\ summ.s.decodes = 1
        /\ summ.s.yielded = Len(recs)
        /\ summ.s.err = ""
        /\ BinSum(Forward, 0, 49) > 0 =>
              /\ ~summ.s.summary.q30_fwd.none
              /\ IsRatio(Ok(summ.s.summary.q30_fwd.val),
                         FloatOf(BinSum(Forward, 29, 49)),
                         FloatOf(BinSum(Forward, 0, 49)))

====
